---- MODULE Spec2Model ----
(***************************************************************************)
(* The Manager controller of the operator: one reconciliation pass         *)
(* (ReconcileManager.Reconcile) run against a cluster whose dependencies   *)
(* are provisioned asynchronously, plus the background task that sets the  *)
(* license-API ready flag.                                                 *)
(*                                                                         *)
(* The cluster is a function from the name of each thing the pass reads to *)
(* the outcome of reading it.  A pass is one atomic action: it reads the   *)
(* cluster in the order of the source, stops at the first early return,    *)
(* and leaves behind the status manager's condition, the objects it        *)
(* applied and the (result, error) pair handed to the scheduler.           *)
(***************************************************************************)
EXTENDS Integers, Sequences, FiniteSets, TLC

\* Number of cluster inputs that may differ from the fully satisfied,
\* standalone cluster when the controller starts.
MaxMissing == 2

\* The same number for the controller run under its scheduler.
MaxMissingScheduled == 1

\* The same number for the controller run with concurrent workers.
MaxMissingConcurrent == 1

\* time.Second multiples of the RequeueAfter of the license waits.
RequeueSeconds == 10

VARIABLES
    cluster,          \* what each read of the object store returns
    tlsSerial,        \* identity of the key material of the manager TLS secret
    applied,          \* the main component as last applied to the store
    licenseAPIReady,  \* utils.ReadyFlag shared with the bootstrap goroutine
    status,           \* r.status, the status manager's condition
    managerState,     \* Manager.Status.State as persisted in the store
    pass,             \* the pass that has just returned
    prevPass,         \* the pass before it, when nothing changed in between
    inflight          \* per request key, the pass a worker is running

vars == <<cluster, tlsSerial, applied, licenseAPIReady, status, managerState,
          pass, prevPass, inflight>>

-----------------------------------------------------------------------------
(* The cluster inputs.                                                     *)

\* The value of every input in a fully provisioned standalone cluster whose
\* manager TLS secret has not been created yet.
Satisfied ==
    [ manager        |-> "nilauth",  \* Manager CR, Spec.Auth == nil
      apiserver      |-> "ready",
      license        |-> "ok",
      feature        |-> "on",       \* compliance feature of the license
      installation   |-> "ok",
      certMgmt       |-> "nil",      \* installation.CertificateManagement
      replicas       |-> "two",      \* installation.ControlPlaneReplicas
      tls            |-> "absent",   \* manager TLS secret
      compliance     |-> "ready",
      complianceCert |-> "ok",
      prometheusNs   |-> "ok",
      pullSecrets    |-> "ok",
      esConfig       |-> "ok",
      esSecrets      |-> "ok",
      kibanaCert     |-> "ok",
      mc             |-> "absent",   \* ManagementCluster
      mcc            |-> "absent",   \* ManagementClusterConnection
      tunnelSecret   |-> "ok",
      internalSecret |-> "ok",
      authentication |-> "absent",
      keyValidator   |-> "ok",
      esLicense      |-> "ok",
      packetCapture  |-> "ok",
      prometheusCert |-> "ok",
      render         |-> "ok",
      imageSet       |-> "ok",
      apply          |-> "ok",
      available      |-> "yes",      \* r.status.IsAvailable()
      statusUpdate   |-> "ok",
      clusterDomain  |-> "cluster.local" ]  \* r.clusterDomain

Inputs == DOMAIN Satisfied

\* The other outcomes of each read.
Other ==
    [ manager        |-> {"token", "badauth", "notfound", "error"},
      apiserver      |-> {"notready"},
      license        |-> {"notfound", "error"},
      feature        |-> {"off"},
      installation   |-> {"notfound", "error"},
      certMgmt       |-> {"enabled"},
      replicas       |-> {"unset", "three"},
      tls            |-> {"operator", "stale", "user", "malformed", "unparsable"},
      compliance     |-> {"notready", "notfound", "error"},
      complianceCert |-> {"absent", "error"},
      prometheusNs   |-> {"notfound", "error"},
      pullSecrets    |-> {"error"},
      esConfig       |-> {"notfound", "error"},
      esSecrets      |-> {"notfound", "error"},
      kibanaCert     |-> {"notfound", "error"},
      mc             |-> {"present", "error"},
      mcc            |-> {"present", "error"},
      tunnelSecret   |-> {"notfound", "error"},
      internalSecret |-> {"notfound", "error"},
      authentication |-> {"ready", "notready", "error"},
      keyValidator   |-> {"error"},
      esLicense      |-> {"error"},
      packetCapture  |-> {"absent", "error"},
      prometheusCert |-> {"absent", "error"},
      render         |-> {"error"},
      imageSet       |-> {"error"},
      apply          |-> {"failPassthrough", "failMain"},
      available      |-> {"no"},
      statusUpdate   |-> {"error"},
      clusterDomain  |-> {"acme.internal"} ]

\* A change of one input to another outcome, or no change at all.
Changes ==
    UNION { {d} \X Other[d] : d \in Inputs } \cup {<<"apiserver", Satisfied.apiserver>>}

\* The cluster s after the first i changes of the sequence c.
RECURSIVE Changed(_, _, _)
Changed(s, c, i) ==
    IF i = 0 THEN s
    ELSE Changed([s EXCEPT ![c[i][1]] = c[i][2]], c, i - 1)

\* The clusters that differ from Satisfied in at most n inputs.
Snapshots(n) == { Changed(Satisfied, c, n) : c \in [1..n -> Changes] }

-----------------------------------------------------------------------------
(* Values of the pass.                                                     *)

\* The errors the pass can return.
ErrAuthType == "auth types other than 'Token' can no longer be configured using the Manager CR, please use the Authentication CR instead"
ErrBothTopologies == "having both a ManagementCluster and a ManagementClusterConnection is not supported"
ErrUserSecret == "user provided secret is not supported when certificate management is enabled"

\* operatorv1.TigeraStatusReady
TigeraStatusReady == "Ready"

\* The rendered main component: the fields of the ManagerConfiguration that
\* the model tells apart.  NoDesired stands for "nothing rendered".
NoDesired ==
    [ rendered |-> FALSE, replicas |-> 0, tls |-> 0, managementCluster |-> FALSE,
      complianceCert |-> FALSE, prometheusCert |-> FALSE, keyValidator |-> FALSE ]

\* The status manager before the first pass.
NoStatus == [ crFound |-> FALSE, degraded |-> FALSE, reason |-> "" ]

\* The arguments of a call of EnsureCertificateSecret; NoRequest when none
\* is made.
NoRequest == [ names |-> <<>>, hours |-> 0 ]

\* The locals of a pass at its first statement.
NewPass ==
    [ done |-> FALSE, calls |-> <<>>, err |-> "nil", requeueAfter |-> 0,
      status |-> status, certRequest |-> NoRequest,
      tlsSecret |-> 0, synthesized |-> FALSE, operatorManagedCertSecret |-> FALSE,
      complianceServerCertSecret |-> FALSE,
      components |-> <<>>, desired |-> NoDesired, mutations |-> 0,
      secret |-> cluster.tls, serial |-> tlsSerial, applied |-> applied,
      instanceState |-> managerState, state |-> managerState ]

\* A call made by the pass, in order.
Call(p, c) == [p EXCEPT !.calls = Append(@, c)]

\* return reconcile.Result{RequeueAfter: requeue}, err
Return(p, err, requeue) ==
    [p EXCEPT !.done = TRUE, !.err = err, !.requeueAfter = requeue]

-----------------------------------------------------------------------------
(* The status manager (pkg/controller/status).                             *)

OnCRNotFound(p) ==
    [Call(p, "OnCRNotFound") EXCEPT !.status = [crFound |-> FALSE, degraded |-> FALSE, reason |-> ""]]

OnCRFound(p) ==
    [Call(p, "OnCRFound") EXCEPT !.status.crFound = TRUE]

SetDegraded(p, reason) ==
    [Call(p, "SetDegraded") EXCEPT !.status.degraded = TRUE, !.status.reason = reason]

ClearDegraded(p) ==
    [Call(p, "ClearDegraded") EXCEPT !.status.degraded = FALSE, !.status.reason = ""]

IsAvailable == cluster.available = "yes"

\* Fault: Degrade that records Degraded and lets the pass go on.
DegradeWithoutReturn(p, reason, err, requeue) == SetDegraded(p, reason)

\* r.status.SetDegraded(reason, ...); return reconcile.Result{...}, err
Degrade(p, reason, err, requeue) == Return(SetDegraded(p, reason), err, requeue)

\* The error of a read whose outcome is v.
ErrOf(v) ==
    CASE v \in {"notfound", "absent"} -> "NotFound"
      [] v = "error" -> "InternalError"
      [] OTHER -> "nil"

-----------------------------------------------------------------------------
(* The statements of Reconcile, in the order of the source.  Each takes    *)
(* the locals of a pass that has not returned and gives them back after    *)
(* the statement, with done set when the statement returned.               *)

\* Fault: GetManager without the check of Spec.Auth.Type, so that any auth
\* type is accepted.
GetManagerAnyAuth ==
    CASE cluster.manager = "notfound" -> "NotFound"
      [] cluster.manager = "error"    -> "InternalError"
      [] OTHER                        -> "nil"

\* GetManager: the Manager named tigera-secure, or an error.
GetManager ==
    CASE cluster.manager = "notfound" -> "NotFound"
      [] cluster.manager = "error"    -> "InternalError"
      [] cluster.manager = "badauth"  -> ErrAuthType
      [] OTHER                        -> "nil"

\* Fault: FetchManager without the IsNotFound branch, so that an absent
\* Manager is reported as Degraded and returned as an error.
FetchManagerDegradesOnNotFound(p) ==
    LET q == Call(p, "GetManager")
    IN  IF GetManager # "nil"
        THEN Degrade(q, "Error querying Manager", GetManager, 0)
        ELSE OnCRFound(q)

\* instance, err := GetManager(...); r.status.OnCRFound()
FetchManager(p) ==
    LET q == Call(p, "GetManager")
    IN  IF GetManager # "nil"
        THEN IF GetManager = "NotFound"
             THEN Return(OnCRNotFound(q), "nil", 0)
             ELSE Degrade(q, "Error querying Manager", GetManager, 0)
        ELSE OnCRFound(q)

\* if !utils.IsAPIServerReady(...)
APIServerGate(p) ==
    LET q == Call(p, "IsAPIServerReady")
    IN  IF cluster.apiserver # "ready"
        THEN Degrade(q, "Waiting for Tigera API server to be ready", "nil", 0)
        ELSE q

\* Fault: LicenseAPIGate that waits without asking for a timed retry.
LicenseAPIGateNoRequeue(p) ==
    LET q == Call(p, "IsReady")
    IN  IF ~licenseAPIReady
        THEN Degrade(q, "Waiting for LicenseKeyAPI to be ready", "nil", 0)
        ELSE q

\* Fault: LicenseAPIGate that waits whether or not the flag is set.
LicenseAPIGateAlwaysWaits(p) ==
    Degrade(Call(p, "IsReady"), "Waiting for LicenseKeyAPI to be ready", "nil", RequeueSeconds)

\* if !r.licenseAPIReady.IsReady()
LicenseAPIGate(p) ==
    LET q == Call(p, "IsReady")
    IN  IF ~licenseAPIReady
        THEN Degrade(q, "Waiting for LicenseKeyAPI to be ready", "nil", RequeueSeconds)
        ELSE q

\* license, err := utils.FetchLicenseKey(...)
LicenseGate(p) ==
    LET q == Call(p, "FetchLicenseKey")
    IN  IF cluster.license # "ok"
        THEN IF cluster.license = "notfound"
             THEN Degrade(q, "License not found", "nil", RequeueSeconds)
             ELSE Degrade(q, "Error querying license", "nil", RequeueSeconds)
        ELSE q

\* Fault: InstallationGate that treats an absent installation as a wait and
\* returns no error.
InstallationGateWaits(p) ==
    LET q == Call(p, "GetInstallation")
    IN  IF cluster.installation # "ok"
        THEN IF cluster.installation = "notfound"
             THEN Degrade(q, "Installation not found", "nil", 0)
             ELSE Degrade(q, "Error querying installation", ErrOf(cluster.installation), 0)
        ELSE q

\* variant, installation, err := utils.GetInstallation(...)
InstallationGate(p) ==
    LET q == Call(p, "GetInstallation")
    IN  IF cluster.installation # "ok"
        THEN IF cluster.installation = "notfound"
             THEN Degrade(q, "Installation not found", ErrOf(cluster.installation), 0)
             ELSE Degrade(q, "Error querying installation", ErrOf(cluster.installation), 0)
        ELSE q

\* utils.ValidateCertPair: (is there a secret, err) for a secret whose read is v.
\* An absent secret is (nil, nil); one that cannot be read or lacks a field
\* is an error.
ValidateCertPair(v) ==
    CASE v = "absent"                -> <<FALSE, "nil">>
      [] v \in {"malformed", "error"} -> <<FALSE, "InternalError">>
      [] OTHER                       -> <<TRUE, "nil">>

\* tlsSecret, err := utils.ValidateCertPair(..., render.ManagerTLSSecretName, ...)
TLSSecretGate(p) ==
    LET q == Call(p, "ValidateCertPair(ManagerTLSSecretName)")
        r == ValidateCertPair(cluster.tls)
    IN  IF r[2] # "nil"
        THEN Degrade(q, "Error validating manager TLS certificate", r[2], 0)
        ELSE [q EXCEPT !.tlsSecret = IF r[1] THEN tlsSerial ELSE 0]

\* utils.EnsureCertificateSecret: creates the secret when none is passed in,
\* leaves a user-provided one alone, and issues a new one when an
\* operator-issued one has stale DNS names.
EnsureCertificateSecret(p) ==
    LET q == Call(p, "EnsureCertificateSecret")
    IN  CASE q.tlsSecret = 0 \/ cluster.tls = "stale" ->
               [q EXCEPT !.tlsSecret = tlsSerial + 1, !.synthesized = TRUE,
                         !.operatorManagedCertSecret = TRUE]
          [] cluster.tls = "unparsable" -> [q EXCEPT !.err = "InternalError"]
          [] cluster.tls = "user"       -> [q EXCEPT !.operatorManagedCertSecret = FALSE]
          [] OTHER                      -> [q EXCEPT !.operatorManagedCertSecret = TRUE]

\* utils.IsCertOperatorIssued(tlsSecret.Data[...])
IsCertOperatorIssued(p) ==
    LET q == Call(p, "IsCertOperatorIssued")
    IN  CASE cluster.tls = "unparsable" -> [q EXCEPT !.err = "InternalError"]
          [] cluster.tls = "user"       -> [q EXCEPT !.operatorManagedCertSecret = FALSE]
          [] OTHER                      -> [q EXCEPT !.operatorManagedCertSecret = TRUE]

\* render.ManagerServiceName, render.ManagerNamespace
ManagerServiceName == "tigera-manager"
ManagerNamespace == "tigera-manager"

\* dns.GetServiceDNSNames: the names under which a service is reached inside
\* the cluster, from the bare service name to the fully qualified one.
GetServiceDNSNames(svcName, svcNamespace, clusterDomain) ==
    << svcName,
       svcName \o "." \o svcNamespace,
       svcName \o "." \o svcNamespace \o ".svc",
       svcName \o "." \o svcNamespace \o ".svc." \o clusterDomain >>

\* Fault: the DNS names of the request without "localhost".
svcDNSNamesWithoutLocalhost ==
    GetServiceDNSNames(ManagerServiceName, ManagerNamespace, cluster.clusterDomain)

\* svcDNSNames := dns.GetServiceDNSNames(...); svcDNSNames = append(svcDNSNames, "localhost")
svcDNSNames ==
    Append(GetServiceDNSNames(ManagerServiceName, ManagerNamespace, cluster.clusterDomain),
           "localhost")

\* certDur := 825 * 24 * time.Hour, in hours (int64 nanoseconds in the
\* source, where the product is 7.128 * 10^16 and does not overflow).
certDur == 825 * 24

\* Fault: CertificateManagement without the rejection of a secret that is
\* not operator-issued when certificate management is enabled.
CertificateManagementAcceptsUserSecret(p) ==
    IF cluster.certMgmt = "nil"
    THEN LET q == EnsureCertificateSecret(
                      [p EXCEPT !.certRequest = [names |-> svcDNSNames, hours |-> certDur]])
         IN  IF q.err # "nil"
             THEN Degrade(q, "Error ensuring manager TLS certificate ManagerTLSSecretName exists and has valid DNS names", q.err, 0)
             ELSE q
    ELSE IF p.tlsSecret # 0
    THEN LET q == IsCertOperatorIssued(p)
         IN  IF q.err # "nil"
             THEN Degrade(q, "Error checking if manager TLS certificate is operator managed", q.err, 0)
             ELSE q
    ELSE p

\* Fault: CertificateManagement that demands a secret when certificate
\* management is enabled.
CertificateManagementRequiresSecret(p) ==
    IF cluster.certMgmt = "nil"
    THEN LET q == EnsureCertificateSecret(
                      [p EXCEPT !.certRequest = [names |-> svcDNSNames, hours |-> certDur]])
         IN  IF q.err # "nil"
             THEN Degrade(q, "Error ensuring manager TLS certificate ManagerTLSSecretName exists and has valid DNS names", q.err, 0)
             ELSE q
    ELSE IF p.tlsSecret # 0
    THEN LET q == IsCertOperatorIssued(p)
         IN  IF q.err # "nil"
             THEN Degrade(q, "Error checking if manager TLS certificate is operator managed", q.err, 0)
             ELSE IF ~q.operatorManagedCertSecret
             THEN Degrade(q, "Invalid certificate configuration", ErrUserSecret, 0)
             ELSE q
    ELSE Degrade(p, "Invalid certificate configuration", "NotFound", 0)

\* var operatorManagedCertSecret bool; if installation.CertificateManagement == nil ...
CertificateManagement(p) ==
    IF cluster.certMgmt = "nil"
    THEN LET q == EnsureCertificateSecret(
                      [p EXCEPT !.certRequest = [names |-> svcDNSNames, hours |-> certDur]])
         IN  IF q.err # "nil"
             THEN Degrade(q, "Error ensuring manager TLS certificate ManagerTLSSecretName exists and has valid DNS names", q.err, 0)
             ELSE q
    ELSE IF p.tlsSecret # 0
    THEN LET q == IsCertOperatorIssued(p)
         IN  IF q.err # "nil"
             THEN Degrade(q, "Error checking if manager TLS certificate is operator managed", q.err, 0)
             ELSE IF ~q.operatorManagedCertSecret
             THEN Degrade(q, "Invalid certificate configuration", ErrUserSecret, 0)
             ELSE q
    ELSE p

\* utils.IsFeatureActive(license, common.ComplianceFeature)
installCompliance == cluster.feature = "on"

\* Fault: ComplianceGate that does not look at the license feature.
ComplianceGateUnconditional(p) ==
    LET q == Call(p, "GetCompliance")
        c == Call(q, "ValidateCertPair(ComplianceServerCertSecret)")
        r == ValidateCertPair(cluster.complianceCert)
    IN  IF cluster.compliance \in {"notfound", "error"}
        THEN IF cluster.compliance = "notfound"
             THEN Degrade(q, "Compliance not found", ErrOf(cluster.compliance), 0)
             ELSE Degrade(q, "Error querying compliance", ErrOf(cluster.compliance), 0)
        ELSE IF cluster.compliance # "ready"
        THEN Degrade(q, "Compliance is not ready", "nil", 0)
        ELSE IF r[2] # "nil"
        THEN Degrade(c, "Failed to retrieve ComplianceServerCertSecret", r[2], 0)
        ELSE IF ~r[1]
        THEN Degrade(c, "Waiting for secret 'ComplianceServerCertSecret' to become available", "nil", 0)
        ELSE [c EXCEPT !.complianceServerCertSecret = TRUE]

\* if installCompliance { compliance.GetCompliance ...; utils.ValidateCertPair(ComplianceServerCertSecret) }
ComplianceGate(p) ==
    IF installCompliance
    THEN LET q == Call(p, "GetCompliance")
             c == Call(q, "ValidateCertPair(ComplianceServerCertSecret)")
             r == ValidateCertPair(cluster.complianceCert)
         IN  IF cluster.compliance \in {"notfound", "error"}
             THEN IF cluster.compliance = "notfound"
                  THEN Degrade(q, "Compliance not found", ErrOf(cluster.compliance), 0)
                  ELSE Degrade(q, "Error querying compliance", ErrOf(cluster.compliance), 0)
             ELSE IF cluster.compliance # "ready"
             THEN Degrade(q, "Compliance is not ready", "nil", 0)
             ELSE IF r[2] # "nil"
             THEN Degrade(c, "Failed to retrieve ComplianceServerCertSecret", r[2], 0)
             ELSE IF ~r[1]
             THEN Degrade(c, "Waiting for secret 'ComplianceServerCertSecret' to become available", "nil", 0)
             ELSE [c EXCEPT !.complianceServerCertSecret = TRUE]
    ELSE p

\* r.client.Get(ctx, client.ObjectKey{Name: common.TigeraPrometheusNamespace}, ns)
PrometheusGate(p) ==
    LET q == Call(p, "Get(TigeraPrometheusNamespace)")
    IN  IF cluster.prometheusNs # "ok"
        THEN IF cluster.prometheusNs = "notfound"
             THEN Degrade(q, "tigera-prometheus namespace does not exist", ErrOf(cluster.prometheusNs), 0)
             ELSE Degrade(q, "Error querying prometheus", ErrOf(cluster.prometheusNs), 0)
        ELSE q

\* pullSecrets, err := utils.GetNetworkingPullSecrets(installation, r.client)
PullSecretsGate(p) ==
    LET q == Call(p, "GetNetworkingPullSecrets")
    IN  IF cluster.pullSecrets # "ok"
        THEN Degrade(q, "Error retrieving pull secrets", ErrOf(cluster.pullSecrets), 0)
        ELSE q

\* esClusterConfig, err := utils.GetElasticsearchClusterConfig(...)
ESClusterConfigGate(p) ==
    LET q == Call(p, "GetElasticsearchClusterConfig")
    IN  IF cluster.esConfig # "ok"
        THEN IF cluster.esConfig = "notfound"
             THEN Degrade(q, "Elasticsearch cluster configuration is not available, waiting for it to become available", "nil", 0)
             ELSE Degrade(q, "Failed to get the elasticsearch cluster configuration", ErrOf(cluster.esConfig), 0)
        ELSE q

\* esSecrets, err := utils.ElasticsearchSecrets(...)
ESSecretsGate(p) ==
    LET q == Call(p, "ElasticsearchSecrets")
    IN  IF cluster.esSecrets # "ok"
        THEN IF cluster.esSecrets = "notfound"
             THEN Degrade(q, "Elasticsearch secrets are not available yet, waiting until they become available", "nil", 0)
             ELSE Degrade(q, "Failed to get Elasticsearch credentials", ErrOf(cluster.esSecrets), 0)
        ELSE q

\* r.client.Get(ctx, ...{Name: render.KibanaPublicCertSecret, ...}, kibanaPublicCertSecret)
KibanaGate(p) ==
    LET q == Call(p, "Get(KibanaPublicCertSecret)")
    IN  IF cluster.kibanaCert # "ok"
        THEN Degrade(q, "Failed to read Kibana public cert secret", ErrOf(cluster.kibanaCert), 0)
        ELSE q

\* managementCluster, err := utils.GetManagementCluster(ctx, r.client)
ManagementClusterGate(p) ==
    LET q == Call(p, "GetManagementCluster")
    IN  IF cluster.mc = "error"
        THEN Degrade(q, "Error reading ManagementCluster", ErrOf(cluster.mc), 0)
        ELSE q

\* managementClusterConnection, err := utils.GetManagementClusterConnection(ctx, r.client)
ManagementClusterConnectionGate(p) ==
    LET q == Call(p, "GetManagementClusterConnection")
    IN  IF cluster.mcc = "error"
        THEN Degrade(q, "Error reading ManagementClusterConnection", ErrOf(cluster.mcc), 0)
        ELSE q

\* managementCluster != nil, managementClusterConnection != nil
managementCluster == cluster.mc = "present"
managementClusterConnection == cluster.mcc = "present"

\* Fault: TopologyGate that lets the two topology resources coexist.
TopologyGateAllowsBoth(p) == p

\* if managementClusterConnection != nil && managementCluster != nil
TopologyGate(p) ==
    IF managementClusterConnection /\ managementCluster
    THEN Degrade(p, ErrBothTopologies, ErrBothTopologies, 0)
    ELSE p

\* Fault: HubSecretsGate that asks for a timed retry when the internal
\* traffic secret is absent.
HubSecretsGateRequeues(p) ==
    IF managementCluster
    THEN LET q == Call(p, "Get(VoltronTunnelSecretName)")
             i == Call(q, "Get(ManagerInternalTLSSecretName)")
         IN  IF cluster.tunnelSecret # "ok"
             THEN Degrade(q, "Failed to check for the existence of management-cluster-connection secret", "nil", 0)
             ELSE IF cluster.internalSecret # "ok"
             THEN IF cluster.internalSecret = "notfound"
                  THEN Degrade(i, "Waiting for secret ManagerInternalTLSSecretName in namespace OperatorNamespace to be available", "nil", RequeueSeconds)
                  ELSE Degrade(i, "Error fetching TLS secret ManagerInternalTLSSecretName in namespace OperatorNamespace", ErrOf(cluster.internalSecret), 0)
             ELSE i
    ELSE p

\* if managementCluster != nil { tunnelSecret ...; internalTrafficSecret ... }
HubSecretsGate(p) ==
    IF managementCluster
    THEN LET q == Call(p, "Get(VoltronTunnelSecretName)")
             i == Call(q, "Get(ManagerInternalTLSSecretName)")
         IN  IF cluster.tunnelSecret # "ok"
             THEN Degrade(q, "Failed to check for the existence of management-cluster-connection secret", "nil", 0)
             ELSE IF cluster.internalSecret # "ok"
             THEN IF cluster.internalSecret = "notfound"
                  THEN Degrade(i, "Waiting for secret ManagerInternalTLSSecretName in namespace OperatorNamespace to be available", "nil", 0)
                  ELSE Degrade(i, "Error fetching TLS secret ManagerInternalTLSSecretName in namespace OperatorNamespace", ErrOf(cluster.internalSecret), 0)
             ELSE i
    ELSE p

\* authenticationCR, err := utils.GetAuthentication(ctx, r.client)
AuthenticationGate(p) ==
    LET q == Call(p, "GetAuthentication")
    IN  IF cluster.authentication = "error"
        THEN Degrade(q, "Error while fetching Authentication", ErrOf(cluster.authentication), 0)
        ELSE IF cluster.authentication = "notready"
        THEN Degrade(q, "Authentication is not ready", "nil", 0)
        ELSE q

\* authenticationCR != nil once the authentication gate is passed
authenticationCR == cluster.authentication = "ready"

\* utils.GetKeyValidatorConfig: nothing to derive, and no error, without an
\* Authentication resource.
GetKeyValidatorConfig ==
    IF authenticationCR THEN ErrOf(cluster.keyValidator) ELSE "nil"

\* keyValidatorConfig, err := utils.GetKeyValidatorConfig(...)
KeyValidatorGate(p) ==
    LET q == Call(p, "GetKeyValidatorConfig")
    IN  IF GetKeyValidatorConfig # "nil"
        THEN Degrade(q, "Failed to process the authentication CR.", GetKeyValidatorConfig, 0)
        ELSE q

\* if managementClusterConnection == nil { utils.GetElasticLicenseType ... }
ElasticLicenseGate(p) ==
    IF ~managementClusterConnection
    THEN LET q == Call(p, "GetElasticLicenseType")
         IN  IF cluster.esLicense # "ok"
             THEN Degrade(q, "Failed to get Elasticsearch license", ErrOf(cluster.esLicense), 0)
             ELSE q
    ELSE p

\* packetCaptureServerCertSecret, err = utils.ValidateCertPair(..., render.PacketCaptureCertSecret, ...)
PacketCaptureGate(p) ==
    LET q == Call(p, "ValidateCertPair(PacketCaptureCertSecret)")
        r == ValidateCertPair(cluster.packetCapture)
    IN  IF r[2] # "nil"
        THEN Degrade(q, "Failed to retrieve PacketCaptureCertSecret", r[2], 0)
        ELSE IF ~r[1]
        THEN Degrade(q, "Waiting for secret 'PacketCaptureCertSecret' to become available", "nil", 0)
        ELSE q

\* Fault: PrometheusCertGate that stops the pass when the secret is absent.
PrometheusCertGateRequiresSecret(p) ==
    LET q == Call(p, "ValidateCertPair(PrometheusTLSSecretName)")
        r == ValidateCertPair(cluster.prometheusCert)
    IN  IF r[2] # "nil"
        THEN Degrade(q, "Failed to retrieve PrometheusTLSSecretName", r[2], 0)
        ELSE IF ~r[1]
        THEN Degrade(q, "Waiting for secret 'PrometheusTLSSecretName' to become available", "nil", 0)
        ELSE q

\* prometheusCertSecret, err := utils.ValidateCertPair(..., render.PrometheusTLSSecretName, ...)
PrometheusCertGate(p) ==
    LET q == Call(p, "ValidateCertPair(PrometheusTLSSecretName)")
        r == ValidateCertPair(cluster.prometheusCert)
    IN  IF r[2] # "nil"
        THEN Degrade(q, "Failed to retrieve PrometheusTLSSecretName", r[2], 0)
        ELSE q

-----------------------------------------------------------------------------
(* Rendering and apply.                                                    *)

\* Fault: Passthrough that never adds the secret to the components.
PassthroughNever(p) == p

\* if tlsSecret != nil && operatorManagedCertSecret { components = append(components, render.NewPassthrough(tlsSecret)) }
Passthrough(p) ==
    IF p.tlsSecret # 0 /\ p.operatorManagedCertSecret
    THEN [p EXCEPT !.components = Append(@, "passthrough")]
    ELSE p

\* installation.ControlPlaneReplicas; 0 stands for the nil pointer.
ControlPlaneReplicas ==
    CASE cluster.replicas = "unset" -> 0
      [] cluster.replicas = "two"   -> 2
      [] OTHER                      -> 3

\* Fault: replicas that is set to 1 for a management cluster only.
replicasHubOnly ==
    IF managementCluster THEN 1 ELSE ControlPlaneReplicas

\* var replicas *int32 = installation.ControlPlaneReplicas; 1 for management or managed clusters
replicas ==
    IF managementCluster \/ managementClusterConnection THEN 1 ELSE ControlPlaneReplicas

\* managerCfg := &render.ManagerConfiguration{...}
managerCfg(p) ==
    [ rendered          |-> TRUE,
      replicas          |-> replicas,
      tls               |-> p.tlsSecret,
      managementCluster |-> managementCluster,
      complianceCert    |-> p.complianceServerCertSecret,
      prometheusCert    |-> ValidateCertPair(cluster.prometheusCert)[1],
      keyValidator      |-> authenticationCR ]

\* component, err := render.Manager(managerCfg)
Render(p) ==
    LET q == Call(p, "render.Manager")
    IN  IF cluster.render # "ok"
        THEN Degrade(q, "Error rendering Manager", ErrOf(cluster.render), 0)
        ELSE [q EXCEPT !.desired = managerCfg(p)]

\* Fault: ImageSet that goes on to apply after a failed image override.
ImageSetIgnoringError(p) == Call(p, "ApplyImageSet")

\* Fault: ImageSet that reports a failed image override as Degraded but
\* returns no error.
ImageSetSwallowsError(p) ==
    LET q == Call(p, "ApplyImageSet")
    IN  IF cluster.imageSet # "ok"
        THEN Degrade(q, "Error with images from ImageSet", "nil", 0)
        ELSE q

\* imageset.ApplyImageSet(ctx, r.client, variant, component)
ImageSet(p) ==
    LET q == Call(p, "ApplyImageSet")
    IN  IF cluster.imageSet # "ok"
        THEN Degrade(q, "Error with images from ImageSet", ErrOf(cluster.imageSet), 0)
        ELSE q

\* Fault: the rendered component is put in front of the components already
\* collected instead of behind them.
AppendComponentFirst(p) == [p EXCEPT !.components = <<"manager">> \o @]

\* components = append(components, component)
AppendComponent(p) == [p EXCEPT !.components = Append(@, "manager")]

\* The name under which an apply of component c is recorded.
ApplyCall(c) ==
    IF c = "passthrough" THEN "CreateOrUpdateOrDelete(passthrough)"
    ELSE "CreateOrUpdateOrDelete(manager)"

\* handler.CreateOrUpdateOrDelete(ctx, component, r.status): creates what is
\* missing, updates what differs, leaves converged objects untouched.
CreateOrUpdateOrDelete(p, c) ==
    LET q == Call(p, ApplyCall(c))
    IN  CASE c = "passthrough" /\ cluster.apply = "failPassthrough" -> [q EXCEPT !.err = "InternalError"]
          [] c = "manager" /\ cluster.apply = "failMain" -> [q EXCEPT !.err = "InternalError"]
          [] c = "passthrough" ->
               IF q.secret = "absent" \/ q.serial # q.tlsSecret
               THEN [q EXCEPT !.secret = "operator", !.serial = q.tlsSecret, !.mutations = @ + 1]
               ELSE q
          [] OTHER ->
               IF q.applied # q.desired
               THEN [q EXCEPT !.applied = q.desired, !.mutations = @ + 1]
               ELSE q

\* Fault: an apply loop that drops the error of a failed component and
\* leaves the loop as if every component had been applied.
RECURSIVE ApplyLoopSwallowsError(_, _)
ApplyLoopSwallowsError(p, i) ==
    IF i > Len(p.components) THEN p
    ELSE LET q == CreateOrUpdateOrDelete(p, p.components[i])
         IN  IF q.err # "nil"
             THEN [q EXCEPT !.err = "nil"]
             ELSE ApplyLoopSwallowsError(q, i + 1)

\* Fault: an apply loop that goes on with the remaining components after a
\* failure and reports the failure at the end.
RECURSIVE ApplyLoopKeepsGoing(_, _)
ApplyLoopKeepsGoing(p, i) ==
    IF i > Len(p.components)
    THEN IF p.err # "nil" THEN Degrade(p, "Error creating / updating resource", p.err, 0) ELSE p
    ELSE ApplyLoopKeepsGoing(CreateOrUpdateOrDelete(p, p.components[i]), i + 1)

\* for _, component := range components { if err := handler.CreateOrUpdateOrDelete(...) ... }
RECURSIVE ApplyLoop(_, _)
ApplyLoop(p, i) ==
    IF i > Len(p.components) THEN p
    ELSE LET q == CreateOrUpdateOrDelete(p, p.components[i])
         IN  IF q.err # "nil"
             THEN Degrade(q, "Error creating / updating resource", q.err, 0)
             ELSE ApplyLoop(q, i + 1)

\* Fault: Finish that writes the status without asking IsAvailable.
FinishAlwaysUpdates(p) ==
    LET u == Call([ClearDegraded(p) EXCEPT !.instanceState = TigeraStatusReady], "Status().Update")
    IN  IF cluster.statusUpdate # "ok"
        THEN Return(u, ErrOf(cluster.statusUpdate), 0)
        ELSE Return([u EXCEPT !.state = u.instanceState], "nil", 0)

\* r.status.ClearDegraded(); instance.Status.State = Ready; if r.status.IsAvailable() { r.client.Status().Update(ctx, instance) }
Finish(p) ==
    LET q == Call([ClearDegraded(p) EXCEPT !.instanceState = TigeraStatusReady], "IsAvailable")
        u == Call(q, "Status().Update")
    IN  IF IsAvailable
        THEN IF cluster.statusUpdate # "ok"
             THEN Return(u, ErrOf(cluster.statusUpdate), 0)
             ELSE Return([u EXCEPT !.state = u.instanceState], "nil", 0)
        ELSE Return(q, "nil", 0)

\* Fault: the statements of Reconcile with the compliance gate and the
\* prometheus namespace gate exchanged.
StatementOutOfOrder(k, p) ==
    CASE k = 1  -> FetchManager(p)
      [] k = 2  -> APIServerGate(p)
      [] k = 3  -> LicenseAPIGate(p)
      [] k = 4  -> LicenseGate(p)
      [] k = 5  -> InstallationGate(p)
      [] k = 6  -> TLSSecretGate(p)
      [] k = 7  -> CertificateManagement(p)
      [] k = 8  -> PrometheusGate(p)
      [] k = 9  -> ComplianceGate(p)
      [] k = 10 -> PullSecretsGate(p)
      [] k = 11 -> ESClusterConfigGate(p)
      [] k = 12 -> ESSecretsGate(p)
      [] k = 13 -> KibanaGate(p)
      [] k = 14 -> ManagementClusterGate(p)
      [] k = 15 -> ManagementClusterConnectionGate(p)
      [] k = 16 -> TopologyGate(p)
      [] k = 17 -> HubSecretsGate(p)
      [] k = 18 -> AuthenticationGate(p)
      [] k = 19 -> KeyValidatorGate(p)
      [] k = 20 -> ElasticLicenseGate(p)
      [] k = 21 -> PacketCaptureGate(p)
      [] k = 22 -> PrometheusCertGate(p)
      [] k = 23 -> Passthrough(p)
      [] k = 24 -> Render(p)
      [] k = 25 -> ImageSet(p)
      [] k = 26 -> AppendComponent(p)
      [] k = 27 -> ApplyLoop(p, 1)
      [] OTHER  -> Finish(p)

\* Fault: the statements of Reconcile with certificate management moved
\* behind the last gate.
StatementCertificateLast(k, p) ==
    CASE k = 1  -> FetchManager(p)
      [] k = 2  -> APIServerGate(p)
      [] k = 3  -> LicenseAPIGate(p)
      [] k = 4  -> LicenseGate(p)
      [] k = 5  -> InstallationGate(p)
      [] k = 6  -> TLSSecretGate(p)
      [] k = 7  -> ComplianceGate(p)
      [] k = 8  -> PrometheusGate(p)
      [] k = 9  -> PullSecretsGate(p)
      [] k = 10 -> ESClusterConfigGate(p)
      [] k = 11 -> ESSecretsGate(p)
      [] k = 12 -> KibanaGate(p)
      [] k = 13 -> ManagementClusterGate(p)
      [] k = 14 -> ManagementClusterConnectionGate(p)
      [] k = 15 -> TopologyGate(p)
      [] k = 16 -> HubSecretsGate(p)
      [] k = 17 -> AuthenticationGate(p)
      [] k = 18 -> KeyValidatorGate(p)
      [] k = 19 -> ElasticLicenseGate(p)
      [] k = 20 -> PacketCaptureGate(p)
      [] k = 21 -> PrometheusCertGate(p)
      [] k = 22 -> CertificateManagement(p)
      [] k = 23 -> Passthrough(p)
      [] k = 24 -> Render(p)
      [] k = 25 -> ImageSet(p)
      [] k = 26 -> AppendComponent(p)
      [] k = 27 -> ApplyLoop(p, 1)
      [] OTHER  -> Finish(p)

\* The k-th statement of Reconcile.
Statement(k, p) ==
    CASE k = 1  -> FetchManager(p)
      [] k = 2  -> APIServerGate(p)
      [] k = 3  -> LicenseAPIGate(p)
      [] k = 4  -> LicenseGate(p)
      [] k = 5  -> InstallationGate(p)
      [] k = 6  -> TLSSecretGate(p)
      [] k = 7  -> CertificateManagement(p)
      [] k = 8  -> ComplianceGate(p)
      [] k = 9  -> PrometheusGate(p)
      [] k = 10 -> PullSecretsGate(p)
      [] k = 11 -> ESClusterConfigGate(p)
      [] k = 12 -> ESSecretsGate(p)
      [] k = 13 -> KibanaGate(p)
      [] k = 14 -> ManagementClusterGate(p)
      [] k = 15 -> ManagementClusterConnectionGate(p)
      [] k = 16 -> TopologyGate(p)
      [] k = 17 -> HubSecretsGate(p)
      [] k = 18 -> AuthenticationGate(p)
      [] k = 19 -> KeyValidatorGate(p)
      [] k = 20 -> ElasticLicenseGate(p)
      [] k = 21 -> PacketCaptureGate(p)
      [] k = 22 -> PrometheusCertGate(p)
      [] k = 23 -> Passthrough(p)
      [] k = 24 -> Render(p)
      [] k = 25 -> ImageSet(p)
      [] k = 26 -> AppendComponent(p)
      [] k = 27 -> ApplyLoop(p, 1)
      [] OTHER  -> Finish(p)

\* The statements from the k-th on, up to the first that returns.  The
\* locals after statement k are bound to q before the next statement runs.
RECURSIVE RunFrom(_, _)
RunFrom(k, p) ==
    IF p.done THEN p
    ELSE CHOOSE r \in { RunFrom(k + 1, q) : q \in {Statement(k, p)} } : TRUE

\* func (r *ReconcileManager) Reconcile(ctx, request) (reconcile.Result, error)
ReconcilePass == RunFrom(1, NewPass)

-----------------------------------------------------------------------------
(* The state machine.                                                      *)

\* What is kept of a pass once it has returned.
NoPass ==
    [ returned |-> FALSE, calls |-> <<>>, err |-> "nil", requeueAfter |-> 0,
      tlsSecret |-> 0, synthesized |-> FALSE, components |-> <<>>,
      desired |-> NoDesired, mutations |-> 0, certRequest |-> NoRequest ]

Returned(p) ==
    [ returned |-> TRUE, calls |-> p.calls, err |-> p.err, requeueAfter |-> p.requeueAfter,
      tlsSecret |-> p.tlsSecret, synthesized |-> p.synthesized, components |-> p.components,
      desired |-> p.desired, mutations |-> p.mutations, certRequest |-> p.certRequest ]

\* The keys of the requests the watches of add() enqueue: every watched
\* object is enqueued under its own name (handler.EnqueueRequestForObject).
\* Two of them: the Manager and the manager TLS secret.
Keys == {"tigera-secure", "manager-tls"}

\* No worker is running a pass for the key.
Idle ==
    [ busy |-> FALSE, alone |-> FALSE, latest |-> FALSE, decision |-> "", reason |-> "",
      written |-> FALSE ]

\* The controller is started (Add, newReconciler) in a cluster that is at
\* most MaxMissing inputs away from the satisfied one; the ready flag is
\* unset, the status manager is empty and nothing has been applied.
Init ==
    /\ cluster \in Snapshots(MaxMissing)
    /\ tlsSerial = IF cluster.tls = "absent" THEN 0 ELSE 1
    /\ applied = NoDesired
    /\ licenseAPIReady = FALSE
    /\ status = NoStatus
    /\ managerState = ""
    /\ pass = NoPass
    /\ prevPass = NoPass
    /\ inflight = [k \in Keys |-> Idle]

\* One pass of the controller.
Reconcile ==
    LET p == ReconcilePass
    IN  /\ cluster' = [cluster EXCEPT !.tls = p.secret]
        /\ tlsSerial' = p.serial
        /\ applied' = p.applied
        /\ status' = p.status
        /\ managerState' = p.state
        /\ pass' = Returned(p)
        /\ prevPass' = pass
        /\ UNCHANGED <<licenseAPIReady, inflight>>

\* go utils.WaitToAddLicenseKeyWatch(controller, k8sClient, log, licenseAPIReady):
\* the background task marks the flag ready, once.
WaitToAddLicenseKeyWatch ==
    /\ ~licenseAPIReady
    /\ licenseAPIReady' = TRUE
    /\ pass' = NoPass
    /\ prevPass' = NoPass
    /\ UNCHANGED <<cluster, tlsSerial, applied, status, managerState, inflight>>

\* The cluster changes under the controller: input d reaches its satisfied
\* value (a dependency is provisioned, a fault clears, a resource is removed).
\* The cluster domain is a field of the reconciler and never changes.
\* A manager TLS secret issued by the operator is left in place.
Provision(d) ==
    /\ cluster[d] # Satisfied[d]
    /\ d # "clusterDomain"
    /\ ~(d = "tls" /\ cluster.tls = "operator")
    /\ cluster' = [cluster EXCEPT ![d] = Satisfied[d]]
    /\ pass' = NoPass
    /\ prevPass' = NoPass
    /\ UNCHANGED <<tlsSerial, applied, licenseAPIReady, status, managerState, inflight>>

Next ==
    \/ Reconcile
    \/ WaitToAddLicenseKeyWatch
    \/ \E d \in Inputs : Provision(d)

Spec == Init /\ [][Next]_vars

-----------------------------------------------------------------------------
(* The controller under its scheduler.                                     *)
(* Spec lets a pass run at any moment.  SpecScheduled runs a pass only     *)
(* when the work queue holds a request, and runs it eventually.            *)

\* The inputs add() sets no watch for: the availability the status manager
\* reports is computed by the status manager and is no watched resource.
Unwatched == {"available"}

\* The work queue holds a request: the controller has started or a watched
\* resource has changed since the last pass (the watches of add()), the last
\* pass returned an error (backoff) or asked to be requeued, or it wrote
\* objects on which add() set a watch.
Enqueued ==
    \/ ~pass.returned
    \/ pass.err # "nil"
    \/ pass.requeueAfter > 0
    \/ pass.mutations > 0

\* The scheduler hands the request to Reconcile.
Dispatch == Enqueued /\ Reconcile

\* licenseAPIReady.MarkAsReady(): the background task sets the flag; the
\* queue is left as it is.
MarkAsReady ==
    /\ ~licenseAPIReady
    /\ licenseAPIReady' = TRUE
    /\ UNCHANGED <<cluster, tlsSerial, applied, status, managerState, pass, prevPass, inflight>>

\* An unwatched input reaches its satisfied value; the queue is left as it is.
Drift(d) ==
    /\ d \in Unwatched
    /\ cluster[d] # Satisfied[d]
    /\ cluster' = [cluster EXCEPT ![d] = Satisfied[d]]
    /\ UNCHANGED <<tlsSerial, applied, licenseAPIReady, status, managerState, pass, prevPass,
                   inflight>>

NextScheduled ==
    \/ Dispatch
    \/ MarkAsReady
    \/ \E d \in Inputs \ Unwatched : Provision(d)
    \/ \E d \in Unwatched : Drift(d)

\* The controller is started in a cluster that is at most
\* MaxMissingScheduled inputs away from the satisfied one.
InitScheduled ==
    /\ cluster \in Snapshots(MaxMissingScheduled)
    /\ tlsSerial = IF cluster.tls = "absent" THEN 0 ELSE 1
    /\ applied = NoDesired
    /\ licenseAPIReady = FALSE
    /\ status = NoStatus
    /\ managerState = ""
    /\ pass = NoPass
    /\ prevPass = NoPass
    /\ inflight = [k \in Keys |-> Idle]

\* A request in the queue is eventually handed to Reconcile.
SpecScheduled == InitScheduled /\ [][NextScheduled]_vars /\ WF_vars(Dispatch)

-----------------------------------------------------------------------------
(* The gates of the specification, stated over the cluster alone.          *)
(* These are what the properties below compare the pass with.  A pass      *)
(* changes no input but the manager TLS secret, which it may create or     *)
(* reissue; that changes the verdict of no check below.                    *)

Range(f) == { f[i] : i \in DOMAIN f }

\* The checks of a pass in the order the specification lists them, with
\* certificate resolution placed where the pass performs it.
CheckOrder ==
    << "manager", "apiserver", "licenseAPI", "license", "installation", "tls",
       "cert",
       "compliance", "complianceCert", "prometheusNs", "pullSecrets", "esConfig",
       "esSecrets", "kibanaCert", "mc", "mcc", "topology", "tunnelSecret",
       "internalSecret", "authentication", "keyValidator", "esLicense",
       "packetCapture", "prometheusCert", "render", "imageSet" >>

\* The gate (1..16) of each check; 0 for certificate resolution, 17 and 18
\* for rendering and the image override.
GateOf ==
    [ manager |-> 1, apiserver |-> 2, licenseAPI |-> 3, license |-> 4,
      installation |-> 5, tls |-> 6, cert |-> 0, compliance |-> 7,
      complianceCert |-> 7, prometheusNs |-> 8, pullSecrets |-> 9, esConfig |-> 9,
      esSecrets |-> 9, kibanaCert |-> 10, mc |-> 11, mcc |-> 11, topology |-> 11,
      tunnelSecret |-> 12, internalSecret |-> 12, authentication |-> 13,
      keyValidator |-> 14, esLicense |-> 15, packetCapture |-> 16,
      prometheusCert |-> 16, render |-> 17, imageSet |-> 18 ]

\* Check c does not pass in the current cluster.
CheckBad(c) ==
    CASE c = "manager"        -> cluster.manager \notin {"nilauth", "token"}
      [] c = "apiserver"      -> cluster.apiserver # "ready"
      [] c = "licenseAPI"     -> ~licenseAPIReady
      [] c = "tls"            -> cluster.tls = "malformed"
      [] c = "cert"           -> \/ cluster.tls = "unparsable"
                                 \/ cluster.certMgmt = "enabled" /\ cluster.tls = "user"
      [] c = "compliance"     -> cluster.feature = "on" /\ cluster.compliance # "ready"
      [] c = "complianceCert" -> cluster.feature = "on" /\ cluster.complianceCert # "ok"
      [] c = "mc"             -> cluster.mc = "error"
      [] c = "mcc"            -> cluster.mcc = "error"
      [] c = "topology"       -> cluster.mc = "present" /\ cluster.mcc = "present"
      [] c = "tunnelSecret"   -> cluster.mc = "present" /\ cluster.tunnelSecret # "ok"
      [] c = "internalSecret" -> cluster.mc = "present" /\ cluster.internalSecret # "ok"
      [] c = "authentication" -> cluster.authentication \in {"notready", "error"}
      [] c = "keyValidator"   -> cluster.authentication = "ready" /\ cluster.keyValidator # "ok"
      [] c = "esLicense"      -> cluster.mcc # "present" /\ cluster.esLicense # "ok"
      [] c = "prometheusCert" -> cluster.prometheusCert = "error"
      [] OTHER                -> cluster[c] # "ok"

\* The position of the first check that does not pass; 0 when all pass.
FirstBad ==
    LET bad == { i \in DOMAIN CheckOrder : CheckBad(CheckOrder[i]) }
    IN  IF bad = {} THEN 0 ELSE CHOOSE i \in bad : \A j \in bad : i <= j

\* Every gate passes, certificate resolution, rendering and the image
\* override succeed.
AllClear == FirstBad = 0

\* Every check before check c passes.
ClearBefore(c) ==
    \A i \in DOMAIN CheckOrder :
        CheckBad(CheckOrder[i]) => \E j \in 1..i : CheckOrder[j] = c

\* The first check that does not pass is c.
FirstBadIs(c) == FirstBad # 0 /\ CheckOrder[FirstBad] = c

\* Gate k (1..16) passes.
GateOK(k) == \A c \in Range(CheckOrder) : GateOf[c] = k => ~CheckBad(c)

\* The lowest-numbered gate that does not pass; 0 when all pass.
LowestBadGate ==
    LET bad == { k \in 1..16 : ~GateOK(k) }
    IN  IF bad = {} THEN 0 ELSE CHOOSE k \in bad : \A j \in bad : k <= j

\* The reads and calls that evaluate each check.
CallsOf ==
    [ manager |-> {"GetManager"}, apiserver |-> {"IsAPIServerReady"},
      licenseAPI |-> {"IsReady"}, license |-> {"FetchLicenseKey"},
      installation |-> {"GetInstallation"},
      tls |-> {"ValidateCertPair(ManagerTLSSecretName)"},
      cert |-> {"EnsureCertificateSecret", "IsCertOperatorIssued"},
      compliance |-> {"GetCompliance"},
      complianceCert |-> {"ValidateCertPair(ComplianceServerCertSecret)"},
      prometheusNs |-> {"Get(TigeraPrometheusNamespace)"},
      pullSecrets |-> {"GetNetworkingPullSecrets"},
      esConfig |-> {"GetElasticsearchClusterConfig"},
      esSecrets |-> {"ElasticsearchSecrets"},
      kibanaCert |-> {"Get(KibanaPublicCertSecret)"},
      mc |-> {"GetManagementCluster"}, mcc |-> {"GetManagementClusterConnection"},
      topology |-> {},
      tunnelSecret |-> {"Get(VoltronTunnelSecretName)"},
      internalSecret |-> {"Get(ManagerInternalTLSSecretName)"},
      authentication |-> {"GetAuthentication"},
      keyValidator |-> {"GetKeyValidatorConfig"},
      esLicense |-> {"GetElasticLicenseType"},
      packetCapture |-> {"ValidateCertPair(PacketCaptureCertSecret)"},
      prometheusCert |-> {"ValidateCertPair(PrometheusTLSSecretName)"},
      render |-> {"render.Manager"}, imageSet |-> {"ApplyImageSet"} ]

\* The Degraded reasons of each check (CRNotFound for the absent Manager).
ReasonsOf ==
    [ manager |-> {"CRNotFound", "Error querying Manager"},
      apiserver |-> {"Waiting for Tigera API server to be ready"},
      licenseAPI |-> {"Waiting for LicenseKeyAPI to be ready"},
      license |-> {"License not found", "Error querying license"},
      installation |-> {"Installation not found", "Error querying installation"},
      tls |-> {"Error validating manager TLS certificate"},
      cert |-> {"Error ensuring manager TLS certificate ManagerTLSSecretName exists and has valid DNS names",
                "Error checking if manager TLS certificate is operator managed",
                "Invalid certificate configuration"},
      compliance |-> {"Compliance not found", "Error querying compliance", "Compliance is not ready"},
      complianceCert |-> {"Failed to retrieve ComplianceServerCertSecret",
                          "Waiting for secret 'ComplianceServerCertSecret' to become available"},
      prometheusNs |-> {"tigera-prometheus namespace does not exist", "Error querying prometheus"},
      pullSecrets |-> {"Error retrieving pull secrets"},
      esConfig |-> {"Elasticsearch cluster configuration is not available, waiting for it to become available",
                    "Failed to get the elasticsearch cluster configuration"},
      esSecrets |-> {"Elasticsearch secrets are not available yet, waiting until they become available",
                     "Failed to get Elasticsearch credentials"},
      kibanaCert |-> {"Failed to read Kibana public cert secret"},
      mc |-> {"Error reading ManagementCluster"},
      mcc |-> {"Error reading ManagementClusterConnection"},
      topology |-> {"having both a ManagementCluster and a ManagementClusterConnection is not supported"},
      tunnelSecret |-> {"Failed to check for the existence of management-cluster-connection secret"},
      internalSecret |-> {"Waiting for secret ManagerInternalTLSSecretName in namespace OperatorNamespace to be available",
                          "Error fetching TLS secret ManagerInternalTLSSecretName in namespace OperatorNamespace"},
      authentication |-> {"Error while fetching Authentication", "Authentication is not ready"},
      keyValidator |-> {"Failed to process the authentication CR."},
      esLicense |-> {"Failed to get Elasticsearch license"},
      packetCapture |-> {"Failed to retrieve PacketCaptureCertSecret",
                         "Waiting for secret 'PacketCaptureCertSecret' to become available"},
      prometheusCert |-> {"Failed to retrieve PrometheusTLSSecretName"},
      render |-> {"Error rendering Manager"},
      imageSet |-> {"Error with images from ImageSet"} ]

\* The reasons and the calls of gate k.
GateReasons(k) == UNION { ReasonsOf[c] : c \in { d \in Range(CheckOrder) : GateOf[d] = k } }
GateCalls(k) == UNION { CallsOf[c] : c \in { d \in Range(CheckOrder) : GateOf[d] = k } }

\* The condition the status manager holds.
Condition ==
    IF ~status.crFound THEN "CRNotFound"
    ELSE IF status.degraded THEN status.reason
    ELSE "Available"

\* What the pass that has just returned did.
ApplyCalls == {"CreateOrUpdateOrDelete(passthrough)", "CreateOrUpdateOrDelete(manager)"}
Applies == SelectSeq(pass.calls, LAMBDA c : c \in ApplyCalls)
NoApply == Applies = <<>> /\ pass.mutations = 0
Called(c) == c \in Range(pass.calls)
LastCall == pass.calls[Len(pass.calls)]

\* The calls of the pass that evaluate a check, and the position in
\* CheckOrder of the check a call evaluates.
AllCheckCalls == UNION { CallsOf[c] : c \in Range(CheckOrder) }
CheckCalls == SelectSeq(pass.calls, LAMBDA c : c \in AllCheckCalls)
CheckIndex(c) == CHOOSE n \in DOMAIN CheckOrder : c \in CallsOf[CheckOrder[n]]

\* The pass builds a passthrough component for the manager TLS secret.
PassthroughExpected ==
    \/ cluster.certMgmt = "nil" /\ cluster.tls \in {"absent", "operator", "stale"}
    \/ cluster.certMgmt = "enabled" /\ cluster.tls \in {"operator", "stale"}

\* The store accepts every component the pass applies.
ApplyOK ==
    /\ cluster.apply # "failMain"
    /\ ~(cluster.apply = "failPassthrough" /\ PassthroughExpected)

-----------------------------------------------------------------------------
(* Properties.                                                             *)

\* C1: a pass applies a component only if, in the cluster it ran against,
\* the Manager was found, every gate passes and certificate resolution,
\* rendering and the image override succeed; a pass that meets a check that
\* does not pass makes no apply call and changes no object.
C1_NoApplyUnlessAllClear ==
    pass.returned =>
        /\ (Applies # <<>> \/ pass.mutations > 0) =>
              /\ AllClear
              /\ Called("OnCRFound") /\ Called("render.Manager") /\ Called("ApplyImageSet")
              /\ ~Called("SetDegraded") \/ ~ApplyOK
        /\ ~AllClear => NoApply

\* C1 witness: a pass that applied a passthrough and the main component.
C1_Witness ==
    /\ pass.returned
    /\ Applies = <<"CreateOrUpdateOrDelete(passthrough)", "CreateOrUpdateOrDelete(manager)">>
    /\ pass.mutations = 2

\* C2 as stated: the pass ends with the condition of the lowest-numbered
\* gate (1..16) that does not pass, set as its last status call, and
\* evaluates no later gate.
C2_LowestGateReason ==
    (pass.returned /\ LowestBadGate # 0) =>
        /\ Condition \in GateReasons(LowestBadGate)
        /\ LastCall \in {"SetDegraded", "OnCRNotFound"}
        /\ \A k \in (LowestBadGate + 1)..16 : \A c \in GateCalls(k) : ~Called(c)

\* C2 amended: the checks are evaluated in the order of CheckOrder, gates
\* 1..16 with certificate resolution between gates 6 and 7; the pass ends
\* with the condition of the first check that does not pass, set as its last
\* status call, and evaluates no later check.
C2_FirstCheckReason ==
    pass.returned =>
        /\ \A i \in 1..(Len(CheckCalls) - 1) : CheckIndex(CheckCalls[i]) <= CheckIndex(CheckCalls[i + 1])
        /\ FirstBad # 0 =>
              /\ Condition \in ReasonsOf[CheckOrder[FirstBad]]
              /\ LastCall \in {"SetDegraded", "OnCRNotFound"}
              /\ \A n \in (FirstBad + 1)..Len(CheckOrder) :
                    \A c \in CallsOf[CheckOrder[n]] : ~Called(c)
              /\ \A n \in 1..FirstBad :
                    LET c == CheckOrder[n]
                    IN  (CheckBad(c) /\ CallsOf[c] # {}) => \E e \in CallsOf[c] : Called(e)

\* C2 witness: two gates do not pass and the pass stopped at the lower one.
C2_Witness ==
    /\ pass.returned
    /\ Cardinality({ k \in 1..16 : ~GateOK(k) }) >= 2
    /\ ~CheckBad("cert")
    /\ status.degraded
    /\ Condition \in GateReasons(LowestBadGate)

\* The gate inputs that can be absent, and the reason the pass gives then.
AbsentReason ==
    [ license        |-> "License not found",
      installation   |-> "Installation not found",
      compliance     |-> "Compliance not found",
      complianceCert |-> "Waiting for secret 'ComplianceServerCertSecret' to become available",
      prometheusNs   |-> "tigera-prometheus namespace does not exist",
      esConfig       |-> "Elasticsearch cluster configuration is not available, waiting for it to become available",
      esSecrets      |-> "Elasticsearch secrets are not available yet, waiting until they become available",
      kibanaCert     |-> "Failed to read Kibana public cert secret",
      tunnelSecret   |-> "Failed to check for the existence of management-cluster-connection secret",
      internalSecret |-> "Waiting for secret ManagerInternalTLSSecretName in namespace OperatorNamespace to be available",
      packetCapture  |-> "Waiting for secret 'PacketCaptureCertSecret' to become available" ]

\* The first check that does not pass is c, because its input is absent.
AbsentAt(c) == FirstBadIs(c) /\ cluster[c] \in {"notfound", "absent"}

\* The absent inputs for which the pass returns the NotFound error.
ErrorOnAbsent == {"installation", "compliance", "prometheusNs", "kibanaCert"}

\* C3 as stated: when the first check that does not pass fails because its
\* input is absent, the pass returns no error, leaves Degraded set with the
\* reason of that check and does not reach Ready.
C3_AbsentReturnsNoError ==
    (pass.returned /\ ~AllClear) =>
        LET c == CheckOrder[FirstBad]
        IN  (c \in DOMAIN AbsentReason /\ AbsentAt(c)) =>
                /\ pass.err = "nil"
                /\ status.degraded /\ status.reason = AbsentReason[c]
                /\ ~Called("ClearDegraded") /\ ~Called("Status().Update")

\* C3 amended: when the first check that does not pass fails because its
\* input is absent, the pass leaves Degraded set with the reason of that
\* check and does not reach Ready; it returns the NotFound error when the
\* input is the installation, the compliance resource, the prometheus
\* namespace or the Kibana public certificate, and no error otherwise.
C3_AbsentLeavesDegraded ==
    (pass.returned /\ ~AllClear) =>
        LET c == CheckOrder[FirstBad]
        IN  (c \in DOMAIN AbsentReason /\ AbsentAt(c)) =>
                /\ pass.err = (IF c \in ErrorOnAbsent THEN "NotFound" ELSE "nil")
                /\ status.degraded /\ status.reason = AbsentReason[c]
                /\ ~Called("ClearDegraded") /\ ~Called("Status().Update")

\* C3 witness: a pass stopped by an absent Kibana certificate returned the
\* NotFound error.
C3_Witness ==
    /\ pass.returned /\ AbsentAt("kibanaCert")
    /\ pass.err = "NotFound" /\ status.degraded

\* The applies of a pass that applied every component it built.
AppliedAll ==
    /\ pass.components # <<>>
    /\ Applies = [i \in 1..Len(pass.components) |-> ApplyCall(pass.components[i])]

\* The pass that has just returned cleared Degraded legitimately.
C4_ClearedOnlyWhenComplete ==
    pass.returned =>
        /\ Called("ClearDegraded") <=> (AllClear /\ ApplyOK)
        /\ Called("ClearDegraded") =>
              /\ AppliedAll /\ ~Called("SetDegraded") /\ ~Called("OnCRNotFound")
              /\ status.crFound /\ ~status.degraded
        /\ ~Called("ClearDegraded") =>
              /\ status.degraded \/ ~status.crFound
              /\ LastCall \in {"SetDegraded", "OnCRNotFound"}
              /\ ~Called("Status().Update")

\* C4: Degraded is cleared only by a pass that cleared every check and
\* applied every component without error; every other pass ends in Degraded
\* or CRNotFound and writes no status; and the persisted state of the
\* Manager changes only to Ready and only in a pass of the first kind.
C4_ReadyOnlyWhenComplete ==
    /\ [](C4_ClearedOnlyWhenComplete)
    /\ [][managerState' # managerState =>
            /\ managerState' = "Ready"
            /\ pass'.returned /\ "ClearDegraded" \in Range(pass'.calls)
            /\ AllClear' /\ ApplyOK']_vars

\* C4 witness: a complete pass persisted Ready.
C4_Witness ==
    /\ pass.returned /\ Called("ClearDegraded") /\ managerState = "Ready"
    /\ Len(pass.components) = 2

\* C5: the status subresource is written in a pass exactly when every check
\* passes, every component is applied and the status manager reports
\* available; when it does not report available the pass still returns no
\* error.
C5_StatusWrittenIffAvailable ==
    pass.returned =>
        /\ Called("Status().Update") <=> (AllClear /\ ApplyOK /\ cluster.available = "yes")
        /\ (AllClear /\ ApplyOK /\ cluster.available # "yes") =>
              pass.err = "nil" /\ pass.requeueAfter = 0 /\ Called("IsAvailable")

\* C5 witness: a complete pass skipped the write because the controller is
\* not available.
C5_Witness ==
    /\ pass.returned /\ Called("ClearDegraded") /\ cluster.available = "no"
    /\ ~Called("Status().Update") /\ managerState = ""

\* The components a pass builds in the current cluster.
ExpectedComponents ==
    IF PassthroughExpected THEN <<"passthrough", "manager">> ELSE <<"manager">>

\* C6: components are applied in list order up to the first that fails; a
\* failure sets Degraded with the apply error and is returned; when the
\* second of two fails, the secret applied by the first stays in the store,
\* and the next pass builds the same two components from it and applies
\* both again.
C6_StopAtFirstApplyError ==
    (pass.returned /\ AllClear) =>
        /\ pass.components = ExpectedComponents
        /\ Applies = [i \in 1..(IF cluster.apply = "failPassthrough" /\ PassthroughExpected
                                THEN 1 ELSE Len(pass.components))
                        |-> ApplyCall(pass.components[i])]
        /\ ~ApplyOK =>
              /\ status.degraded /\ status.reason = "Error creating / updating resource"
              /\ pass.err = "InternalError"
              /\ ~Called("ClearDegraded")
        /\ (cluster.apply = "failMain" /\ PassthroughExpected) =>
              /\ cluster.tls \in {"operator", "stale"}
              /\ pass.tlsSecret = tlsSerial
              /\ prevPass.returned =>
                    /\ pass.components = prevPass.components
                    /\ pass.tlsSecret = prevPass.tlsSecret /\ ~pass.synthesized
                    /\ pass.mutations = 0

\* C6 witness: the second of two components failed in a pass that created
\* the secret, and the next pass has run.
C6_Witness ==
    /\ prevPass.returned /\ prevPass.err = "InternalError"
    /\ Len(prevPass.components) = 2 /\ prevPass.synthesized /\ prevPass.mutations = 1
    /\ pass.returned /\ Len(Applies) = 2

\* C7: in a cluster where every check passes and every apply succeeds, a
\* pass that follows another with nothing changed in between builds the
\* same components, the same main component and the same TLS bundle, and
\* changes no object.
C7_SecondPassIdempotent ==
    (prevPass.returned /\ pass.returned /\ AllClear /\ ApplyOK) =>
        /\ pass.components = prevPass.components
        /\ pass.desired = prevPass.desired
        /\ pass.tlsSecret = prevPass.tlsSecret /\ ~pass.synthesized
        /\ pass.mutations = 0

\* C7 witness: the first pass synthesized the bundle and applied both
\* components; the second changed nothing.
C7_Witness ==
    /\ prevPass.returned /\ prevPass.synthesized /\ prevPass.mutations = 2
    /\ pass.returned /\ Called("ClearDegraded") /\ pass.mutations = 0

\* C8: when a ManagementCluster and a ManagementClusterConnection both
\* exist and every earlier check passes, the pass sets Degraded, returns the
\* conflict error and applies nothing, and so does the pass after it.
C8_BothTopologiesConflict ==
    (pass.returned /\ ClearBefore("topology") /\ CheckBad("topology")) =>
        /\ status.degraded
        /\ status.reason = "having both a ManagementCluster and a ManagementClusterConnection is not supported"
        /\ pass.err = "having both a ManagementCluster and a ManagementClusterConnection is not supported"
        /\ LastCall = "SetDegraded"
        /\ NoApply /\ ~Called("ClearDegraded") /\ ~Called("render.Manager")
        /\ prevPass.returned => (prevPass.err = pass.err /\ prevPass.calls = pass.calls)

\* C8 witness: two passes in a row ended with the conflict error.
C8_Witness ==
    /\ prevPass.returned /\ pass.returned
    /\ cluster.mc = "present" /\ cluster.mcc = "present"
    /\ pass.err = ErrBothTopologies /\ prevPass.err = ErrBothTopologies

\* C9: when the Manager is absent the pass calls OnCRNotFound and nothing
\* else: no SetDegraded, no error, no requeue, no further gate, no apply, no
\* status write.
C9_ManagerAbsent ==
    (pass.returned /\ cluster.manager = "notfound") =>
        /\ pass.calls = <<"GetManager", "OnCRNotFound">>
        /\ pass.err = "nil" /\ pass.requeueAfter = 0
        /\ ~status.crFound
        /\ pass.mutations = 0

\* C9 witness: a pass has run with the Manager absent.
C9_Witness ==
    pass.returned /\ cluster.manager = "notfound" /\ Condition = "CRNotFound"

\* C10: with a valid Manager, a ready API server and the license-API flag
\* unset, the pass sets Degraded "Waiting for LicenseKeyAPI to be ready",
\* returns no error, asks to be run again after 10 seconds and evaluates no
\* later gate.
C10_LicenseAPINotReady ==
    (pass.returned /\ ~CheckBad("manager") /\ ~CheckBad("apiserver") /\ ~licenseAPIReady) =>
        /\ status.degraded /\ status.reason = "Waiting for LicenseKeyAPI to be ready"
        /\ pass.err = "nil" /\ pass.requeueAfter = 10
        /\ pass.calls = <<"GetManager", "OnCRFound", "IsAPIServerReady", "IsReady", "SetDegraded">>

\* C10 witness: a pass has run before the background task set the flag.
C10_Witness ==
    /\ pass.returned /\ ~licenseAPIReady /\ pass.requeueAfter = 10
    /\ cluster.manager = "token"

\* C11: a Manager whose auth type is set and is not Token ends the pass at
\* the fetch of the Manager: Degraded, the auth-type error returned, and no
\* other call made; a Manager with no auth block or with Token is found and
\* the pass goes on to the API server gate.
C11_UnsupportedAuthFails ==
    pass.returned =>
        /\ cluster.manager = "badauth" =>
              /\ pass.calls = <<"GetManager", "SetDegraded">>
              /\ pass.err = ErrAuthType
              /\ status.degraded /\ status.reason = "Error querying Manager"
              /\ pass.requeueAfter = 0 /\ pass.mutations = 0
        /\ cluster.manager \in {"nilauth", "token"} =>
              /\ Called("OnCRFound") /\ Called("IsAPIServerReady")
              /\ pass.err # ErrAuthType

\* C11 witness: a pass has run against a Manager with an unsupported auth
\* type.
C11_Witness ==
    pass.returned /\ cluster.manager = "badauth" /\ pass.err = ErrAuthType

\* The replica count the installation configures; 0 when it is unset.
ConfiguredReplicas == [unset |-> 0, two |-> 2, three |-> 3][cluster.replicas]

\* C12: the configuration a pass renders has exactly 1 replica when a
\* ManagementCluster or a ManagementClusterConnection is present, whatever
\* the installation configures, and the installation's value (unset
\* included) when neither is present.
C12_ReplicasOneForMultiCluster ==
    (pass.returned /\ pass.desired.rendered) =>
        pass.desired.replicas =
            IF cluster.mc = "present" \/ cluster.mcc = "present"
            THEN 1 ELSE ConfiguredReplicas

\* C12 witness: a managed cluster whose installation leaves the replica
\* count unset was rendered with one replica.
C12_Witness ==
    /\ pass.returned /\ pass.desired.rendered
    /\ cluster.mcc = "present" /\ cluster.replicas = "unset"
    /\ pass.desired.replicas = 1

\* The pass that has just returned and made an apply call applied a prefix
\* of its components, which end with the main component and start with the
\* passthrough exactly when the manager TLS secret exists after certificate
\* resolution and is operator-managed.
C13_ComponentOrder ==
    (pass.returned /\ Applies # <<>>) =>
        /\ pass.components = ExpectedComponents
        /\ pass.components[Len(pass.components)] = "manager"
        /\ Len(Applies) <= Len(pass.components)
        /\ \A i \in 1..Len(Applies) : Applies[i] = ApplyCall(pass.components[i])
        /\ Called(ApplyCall("manager")) =>
              /\ Applies[Len(Applies)] = ApplyCall("manager")
              /\ Len(Applies) = Len(pass.components)
        /\ ("passthrough" \in Range(pass.components)) <=> (pass.tlsSecret # 0 /\ PassthroughExpected)

\* C13: in every pass that reaches apply the main component is applied last
\* and the passthrough, present exactly when an operator-managed TLS secret
\* exists after certificate resolution, before it; and a pass that clears
\* every check in a cluster with no TLS secret and no certificate delegation
\* synthesizes a bundle and puts the passthrough before the main component.
C13_PassthroughBeforeMain ==
    /\ [](C13_ComponentOrder)
    /\ [][(pass'.returned /\ AllClear /\ cluster.tls = "absent" /\ cluster.certMgmt = "nil") =>
            /\ pass'.synthesized /\ pass'.tlsSecret = tlsSerial + 1
            /\ pass'.components = <<"passthrough", "manager">>
            /\ pass'.calls[Len(pass'.calls)] # "SetDegraded" =>
                  /\ cluster'.tls = "operator" /\ tlsSerial' = pass'.tlsSecret
                  /\ <<"CreateOrUpdateOrDelete(passthrough)", "CreateOrUpdateOrDelete(manager)">>
                        = SelectSeq(pass'.calls, LAMBDA c : c \in {ApplyCall("passthrough"), ApplyCall("manager")})]_vars

\* C13 witness: a pass synthesized the bundle and applied the passthrough
\* and then the main component.
C13_Witness ==
    /\ pass.returned /\ pass.synthesized /\ cluster.certMgmt = "nil"
    /\ Applies = <<"CreateOrUpdateOrDelete(passthrough)", "CreateOrUpdateOrDelete(manager)">>
    /\ prevPass = NoPass

\* The DNS names of the manager service in the configured cluster domain.
ManagerDNSNames ==
    { "tigera-manager",
      "tigera-manager.tigera-manager",
      "tigera-manager.tigera-manager.svc",
      "tigera-manager.tigera-manager.svc." \o cluster.clusterDomain }

\* C14: a pass asks for a certificate exactly when certificate delegation is
\* disabled and every check before certificate resolution passes; the
\* request names the DNS names of the manager service in the configured
\* cluster domain and "localhost", nothing else and nothing twice, and a
\* validity of 19800 hours.
C14_CertificateRequest ==
    pass.returned =>
        /\ Called("EnsureCertificateSecret") <=>
              (cluster.certMgmt = "nil" /\ ClearBefore("cert"))
        /\ Called("EnsureCertificateSecret") =>
              /\ Range(pass.certRequest.names) = ManagerDNSNames \cup {"localhost"}
              /\ Len(pass.certRequest.names) = 5
              /\ pass.certRequest.hours = 19800
        /\ ~Called("EnsureCertificateSecret") => pass.certRequest = NoRequest

\* C14 witness: a pass in a cluster with another domain than the default
\* has asked for a certificate.
C14_Witness ==
    /\ pass.returned /\ cluster.clusterDomain = "acme.internal"
    /\ pass.synthesized
    /\ "tigera-manager.tigera-manager.svc.acme.internal" \in Range(pass.certRequest.names)

\* C15: with a user-provided manager TLS secret and every earlier check
\* passing, a pass under certificate delegation sets Degraded "Invalid
\* certificate configuration", returns the error and applies nothing; without
\* delegation it keeps the secret, goes on past certificate resolution and,
\* when everything else passes, renders with that secret and no passthrough.
C15_UserSecretUnderDelegation ==
    (pass.returned /\ ClearBefore("cert") /\ cluster.tls = "user") =>
        /\ cluster.certMgmt = "enabled" =>
              /\ status.degraded /\ status.reason = "Invalid certificate configuration"
              /\ pass.err = ErrUserSecret
              /\ LastCall = "SetDegraded"
              /\ pass.calls[Len(pass.calls) - 1] = "IsCertOperatorIssued"
              /\ NoApply /\ ~Called("render.Manager") /\ ~Called("ClearDegraded")
        /\ cluster.certMgmt = "nil" =>
              /\ Called("EnsureCertificateSecret") /\ ~Called("IsCertOperatorIssued")
              /\ pass.err # ErrUserSecret
              /\ status.reason # "Invalid certificate configuration"
              /\ pass.tlsSecret = tlsSerial /\ ~pass.synthesized
              /\ pass.calls[Len(pass.calls) - 1] # "EnsureCertificateSecret"
              /\ AllClear =>
                    /\ pass.components = <<"manager">>
                    /\ pass.desired.rendered /\ pass.desired.tls = tlsSerial
                    /\ ApplyOK => Called("ClearDegraded")

\* C15 witness: a pass under certificate delegation has rejected a
\* user-provided secret.
C15_Witness ==
    /\ pass.returned /\ cluster.tls = "user" /\ cluster.certMgmt = "enabled"
    /\ pass.err = ErrUserSecret /\ status.degraded

\* The first check that does not pass is c, because the read of its input
\* failed with an error other than NotFound.
FetchFailedAt(c) == c \in Inputs /\ FirstBadIs(c) /\ cluster[c] = "error"

\* C16 as stated: whatever check is the first that does not pass, when the
\* read of its input failed with an error other than NotFound the pass sets
\* Degraded and returns a non-nil error; an absent license is a wait, with
\* no error returned.
C16_FetchErrorFails ==
    (pass.returned /\ ~AllClear) =>
        LET c == CheckOrder[FirstBad]
        IN  /\ FetchFailedAt(c) =>
                  /\ status.degraded /\ LastCall = "SetDegraded"
                  /\ pass.err # "nil"
            /\ (c = "license" /\ cluster.license = "notfound") =>
                  /\ status.degraded /\ pass.err = "nil"

\* C16 failing input: on a management cluster the read of the tunnel secret
\* failed with an error other than NotFound, and the pass returned no error
\* and asked for no retry.
C16_Witness ==
    /\ pass.returned /\ FetchFailedAt("tunnelSecret")
    /\ status.degraded /\ pass.err = "nil" /\ pass.requeueAfter = 0

\* C17: when every check before the image override passes and the image
\* override fails, the pass sets Degraded, returns the error and makes no
\* apply call: the main component is not applied, and a passthrough that
\* was already collected is not applied either, so that a synthesized
\* secret does not reach the store.
C17_ImageSetFailureAppliesNothing ==
    (pass.returned /\ FirstBadIs("imageSet")) =>
        /\ status.degraded /\ status.reason = "Error with images from ImageSet"
        /\ pass.err = "InternalError" /\ pass.requeueAfter = 0
        /\ pass.calls[Len(pass.calls) - 1] = "ApplyImageSet" /\ LastCall = "SetDegraded"
        /\ NoApply /\ ~Called("ClearDegraded")
        /\ pass.components = (IF PassthroughExpected THEN <<"passthrough">> ELSE <<>>)
        /\ pass.synthesized => (cluster.tls \in {"absent", "stale"} /\ tlsSerial # pass.tlsSecret)

\* C17 witness: the image override failed in a pass that had synthesized a
\* secret and collected its passthrough.
C17_Witness ==
    /\ pass.returned /\ cluster.imageSet = "error"
    /\ pass.synthesized /\ pass.components = <<"passthrough">>
    /\ pass.err = "InternalError" /\ Applies = <<>>

\* What the pass that has just returned did of certificate resolution.
CertificateResolved == Called("EnsureCertificateSecret") \/ Called("IsCertOperatorIssued")
CertificateReason == status.crFound /\ status.degraded /\ status.reason \in ReasonsOf["cert"]

\* The reads and calls of gates 7 to 16.
LaterGateCalls == UNION { GateCalls(k) : k \in 7..16 }

\* C18 as stated: certificate resolution runs only when all 16 gates pass; a
\* pass in a cluster where some gate does not pass makes no certificate
\* request and no issuer check, synthesizes no bundle and ends with no
\* certificate-resolution reason.
C18_CertificateAfterAllGates ==
    (pass.returned /\ LowestBadGate # 0) =>
        /\ ~CertificateResolved
        /\ ~pass.synthesized
        /\ ~CertificateReason

\* C18 amended: certificate resolution runs when gates 1..6 pass and before
\* gates 7..16 are evaluated.  A pass that stops at one of gates 1..6 makes
\* no certificate request and no issuer check, synthesizes no bundle and
\* reports no certificate-resolution reason.  A pass that clears gates 1..6
\* resolves the certificate first: it makes the certificate request when
\* delegation is disabled and the issuer check when delegation is enabled
\* and a secret exists; when that fails it ends with the certificate reason
\* and evaluates none of gates 7..16; when it then stops at one of gates
\* 7..16 a bundle it synthesized is dropped and does not reach the store.
C18_CertificateAfterGateSix ==
    pass.returned =>
        /\ (CertificateResolved \/ pass.synthesized \/ CertificateReason) =>
              \A k \in 1..6 : GateOK(k)
        /\ (\A k \in 1..6 : GateOK(k)) =>
              /\ cluster.certMgmt = "nil" => Called("EnsureCertificateSecret")
              /\ (cluster.certMgmt = "enabled" /\ cluster.tls # "absent") => Called("IsCertOperatorIssued")
              /\ (cluster.certMgmt = "enabled" /\ cluster.tls = "absent") => ~CertificateResolved
              /\ CheckBad("cert") =>
                    /\ CertificateReason
                    /\ \A c \in LaterGateCalls : ~Called(c)
        /\ CertificateResolved =>
              \A i \in 1..Len(pass.calls) :
                  pass.calls[i] \in LaterGateCalls =>
                      \E j \in 1..(i - 1) : pass.calls[j] \in CallsOf["cert"]
        /\ (pass.synthesized /\ LowestBadGate # 0) =>
              /\ pass.mutations = 0 /\ tlsSerial # pass.tlsSecret
              /\ cluster.tls \in {"absent", "stale"}

\* C18 witness: a pass that stopped at the compliance gate had already
\* synthesized a bundle.
C18_Witness ==
    /\ pass.returned /\ LowestBadGate = 7
    /\ Called("EnsureCertificateSecret") /\ pass.synthesized
    /\ status.reason = "Compliance is not ready"

\* The pass that has just returned went on after certificate resolution.
ProceededPastCertificate == \E c \in LaterGateCalls \cup {"render.Manager"} : Called(c)

\* C19 as stated: under certificate delegation a pass goes on after
\* certificate resolution only if the manager TLS secret exists and is
\* operator-issued, and with no secret present it makes no apply call.
C19_DelegationNeedsSecret ==
    (pass.returned /\ cluster.certMgmt = "enabled") =>
        /\ ProceededPastCertificate => cluster.tls \in {"operator", "stale"}
        /\ cluster.tls = "absent" => Applies = <<>>

\* C19 amended: under certificate delegation a pass that cleared gates 1..6
\* goes on after certificate resolution exactly when the manager TLS secret
\* is absent or is operator-issued.  With no secret it makes no issuer
\* check and synthesizes nothing, and when every other check passes it
\* renders without a TLS key pair, applies the main component alone and
\* clears Degraded.
C19_DelegationWithoutSecretProceeds ==
    (pass.returned /\ cluster.certMgmt = "enabled") =>
        /\ ProceededPastCertificate <=>
              (ClearBefore("cert") /\ cluster.tls \in {"absent", "operator", "stale"})
        /\ (ProceededPastCertificate /\ cluster.tls # "absent") => Called("IsCertOperatorIssued")
        /\ (cluster.tls = "absent" /\ ClearBefore("cert")) =>
              /\ ~CertificateResolved /\ ~pass.synthesized /\ pass.tlsSecret = 0
              /\ AllClear =>
                    /\ pass.components = <<"manager">>
                    /\ pass.desired.rendered /\ pass.desired.tls = 0
                    /\ Applies = <<ApplyCall("manager")>>
                    /\ ApplyOK => (Called("ClearDegraded") /\ ~status.degraded)

\* C19 witness: under certificate delegation and with no manager TLS secret
\* a pass applied the main component and cleared Degraded.
C19_Witness ==
    /\ pass.returned /\ cluster.certMgmt = "enabled" /\ cluster.tls = "absent"
    /\ Applies = <<"CreateOrUpdateOrDelete(manager)">> /\ pass.mutations = 1
    /\ Called("ClearDegraded")

\* The status manager holds the outcome of the license-API wait.
WaitingForLicenseAPI ==
    status.crFound /\ status.degraded /\ status.reason = "Waiting for LicenseKeyAPI to be ready"

\* C20: the license-API ready flag starts unset, is set only by the
\* background task, once, and is never unset; a pass that reads it unset
\* does not block but returns with the license-API wait and a timed retry,
\* leaving the flag alone; and however the background task is interleaved
\* with the passes, a pass that starts with the flag set reads it as set
\* and does not end with the license-API wait.
C20_ReadyFlagLatch ==
    /\ [][licenseAPIReady => licenseAPIReady']_vars
    /\ [][licenseAPIReady' # licenseAPIReady =>
            (~licenseAPIReady /\ licenseAPIReady' /\ ~pass'.returned)]_vars
    /\ [][(~licenseAPIReady /\ pass'.returned /\ "IsReady" \in Range(pass'.calls)) =>
            /\ pass'.calls[Len(pass'.calls) - 1] = "IsReady"
            /\ WaitingForLicenseAPI'
            /\ pass'.err = "nil" /\ pass'.requeueAfter = RequeueSeconds
            /\ ~licenseAPIReady']_vars
    /\ [][(licenseAPIReady /\ pass'.returned) =>
            /\ ~WaitingForLicenseAPI'
            /\ pass'.requeueAfter = RequeueSeconds => "FetchLicenseKey" \in Range(pass'.calls)
            /\ \A i \in 1..Len(pass'.calls) :
                  pass'.calls[i] = "IsReady" =>
                      (i < Len(pass'.calls) /\ pass'.calls[i + 1] = "FetchLicenseKey")]_vars

\* C20 witness: the status manager still holds the license-API wait of an
\* earlier pass, the background task has set the flag since, and no pass has
\* run after it.
C20_Witness ==
    /\ licenseAPIReady /\ ~pass.returned /\ WaitingForLicenseAPI

-----------------------------------------------------------------------------
(* C23: the two secrets of the management cluster.                         *)

\* C23 as the specification states it: on a management cluster, when the
\* first check that does not pass is the absent tunnel secret the pass ends
\* Degraded with no error and no requested delay, and when it is the absent
\* internal traffic secret the pass ends Degraded with no error and a
\* requested delay.
C23_InternalSecretSchedulesRetry ==
    (pass.returned /\ managementCluster) =>
        /\ (FirstBadIs("tunnelSecret") /\ cluster.tunnelSecret = "notfound") =>
              /\ status.degraded /\ pass.err = "nil" /\ pass.requeueAfter = 0
        /\ (FirstBadIs("internalSecret") /\ cluster.internalSecret = "notfound") =>
              /\ status.degraded /\ pass.err = "nil" /\ pass.requeueAfter > 0

\* C23 as the code behaves: on a management cluster, when the first check
\* that does not pass is the absent tunnel secret or the absent internal
\* traffic secret, the pass ends Degraded with the reason of that secret,
\* returns no error, requests no delay in either case and applies nothing.
C23_NeitherSecretSchedulesRetry ==
    (pass.returned /\ managementCluster) =>
        /\ (FirstBadIs("tunnelSecret") /\ cluster.tunnelSecret = "notfound") =>
              /\ status.degraded /\ Condition \in ReasonsOf.tunnelSecret
              /\ LastCall = "SetDegraded"
              /\ pass.err = "nil" /\ pass.requeueAfter = 0 /\ NoApply
        /\ (FirstBadIs("internalSecret") /\ cluster.internalSecret = "notfound") =>
              /\ status.degraded
              /\ Condition = "Waiting for secret ManagerInternalTLSSecretName in namespace OperatorNamespace to be available"
              /\ LastCall = "SetDegraded"
              /\ pass.err = "nil" /\ pass.requeueAfter = 0 /\ NoApply

\* C23 happens: a pass on a management cluster stopped at the absent
\* internal traffic secret, Degraded, with no error and no requested delay.
C23_Witness ==
    /\ pass.returned /\ managementCluster /\ licenseAPIReady
    /\ FirstBadIs("internalSecret") /\ cluster.internalSecret = "notfound"
    /\ Called("Get(ManagerInternalTLSSecretName)")
    /\ status.degraded /\ pass.err = "nil" /\ pass.requeueAfter = 0

-----------------------------------------------------------------------------
(* C24: the compliance gate.                                               *)

\* The pass went on past the compliance gate.
PastCompliance == Called("Get(TigeraPrometheusNamespace)")

\* The compliance resource or its certificate was consulted.
ComplianceConsulted ==
    Called("GetCompliance") \/ Called("ValidateCertPair(ComplianceServerCertSecret)")

\* The feature is off: the compliance resource and its certificate are not
\* consulted and a rendered configuration carries no compliance certificate.
ComplianceSkipped ==
    (pass.returned /\ cluster.feature = "off") =>
        /\ ~ComplianceConsulted
        /\ ~pass.desired.complianceCert

\* C24 as the specification states it: with the compliance feature active
\* and every earlier check passing, the pass goes on only if the compliance
\* resource is Ready and its certificate secret exists, and when the
\* resource is not Ready or absent, or the secret is absent, the pass ends
\* Degraded and returns no error; with the feature off nothing of
\* compliance is consulted or configured.
C24_ComplianceOtherwiseWaits ==
    /\ (pass.returned /\ cluster.feature = "on" /\ ClearBefore("compliance")) =>
          /\ PastCompliance => (cluster.compliance = "ready" /\ cluster.complianceCert = "ok")
          /\ (\/ cluster.compliance \in {"notready", "notfound"}
              \/ cluster.compliance = "ready" /\ cluster.complianceCert = "absent") =>
                 /\ status.degraded /\ pass.err = "nil" /\ ~PastCompliance
    /\ ComplianceSkipped

\* C24 as the code behaves: with the compliance feature active and every
\* earlier check passing, the pass goes on exactly if the compliance
\* resource is Ready and its certificate secret exists, and then a rendered
\* configuration carries the certificate; a resource that is not Ready and
\* an absent secret end the pass Degraded with no error, an absent resource
\* ends it Degraded with the NotFound error returned, and a failed read of
\* either ends it Degraded with the error returned.  With the feature off
\* nothing of compliance is consulted or configured.
C24_ComplianceGate ==
    /\ (pass.returned /\ cluster.feature = "on" /\ ClearBefore("compliance")) =>
          /\ PastCompliance <=> (cluster.compliance = "ready" /\ cluster.complianceCert = "ok")
          /\ pass.desired.rendered => pass.desired.complianceCert
          /\ ~PastCompliance =>
                /\ status.degraded /\ LastCall = "SetDegraded" /\ pass.requeueAfter = 0
                /\ Condition \in (ReasonsOf.compliance \cup ReasonsOf.complianceCert)
                /\ NoApply
          /\ cluster.compliance = "notready" =>
                /\ Condition = "Compliance is not ready" /\ pass.err = "nil"
          /\ cluster.compliance = "notfound" =>
                /\ Condition = "Compliance not found" /\ pass.err = "NotFound"
          /\ cluster.compliance = "error" =>
                /\ Condition = "Error querying compliance" /\ pass.err # "nil"
          /\ (cluster.compliance = "ready" /\ cluster.complianceCert = "absent") =>
                /\ Condition = "Waiting for secret 'ComplianceServerCertSecret' to become available"
                /\ pass.err = "nil"
          /\ (cluster.compliance = "ready" /\ cluster.complianceCert = "error") =>
                /\ Condition = "Failed to retrieve ComplianceServerCertSecret"
                /\ pass.err # "nil"
    /\ ComplianceSkipped

\* C24 happens: with the feature active a pass stopped at the absent
\* compliance resource and returned the NotFound error.
C24_Witness ==
    /\ pass.returned /\ cluster.feature = "on" /\ licenseAPIReady
    /\ FirstBadIs("compliance") /\ cluster.compliance = "notfound"
    /\ Called("GetCompliance") /\ ~Called("ValidateCertPair(ComplianceServerCertSecret)")
    /\ status.degraded /\ pass.err = "NotFound"

\* With the feature off a pass rendered a configuration.
C24_FeatureOffRendered ==
    /\ pass.returned /\ cluster.feature = "off" /\ pass.desired.rendered
    /\ ~ComplianceConsulted /\ ~pass.desired.complianceCert

-----------------------------------------------------------------------------
(* C25: the packet capture and Prometheus certificates.                    *)

\* The pass that has just returned stopped in Degraded: nothing applied,
\* Degraded not cleared, no status written.
StoppedDegraded ==
    /\ status.degraded /\ LastCall = "SetDegraded"
    /\ NoApply /\ ~Called("ClearDegraded") /\ ~Called("Status().Update")

\* C25: when every earlier check passes, an absent packet capture
\* certificate stops the pass in Degraded with no error, and a packet
\* capture or Prometheus certificate that cannot be read or parsed stops it
\* in Degraded with the error returned; an absent Prometheus certificate
\* stops nothing: the pass renders a configuration without it and, every
\* other check passing and the store accepting the components, applies all
\* of them, clears Degraded and, when the status manager reports available,
\* persists Ready.
C25_CaptureRequiredMetricsOptional ==
    pass.returned =>
        /\ ClearBefore("packetCapture") =>
              /\ cluster.packetCapture = "absent" =>
                    /\ StoppedDegraded /\ pass.err = "nil"
                    /\ Condition = "Waiting for secret 'PacketCaptureCertSecret' to become available"
                    /\ ~Called("ValidateCertPair(PrometheusTLSSecretName)")
              /\ cluster.packetCapture = "error" =>
                    /\ StoppedDegraded /\ pass.err # "nil"
                    /\ Condition = "Failed to retrieve PacketCaptureCertSecret"
        /\ ClearBefore("prometheusCert") =>
              /\ cluster.prometheusCert = "error" =>
                    /\ StoppedDegraded /\ pass.err # "nil"
                    /\ Condition = "Failed to retrieve PrometheusTLSSecretName"
              /\ cluster.prometheusCert = "absent" =>
                    /\ Called("render.Manager")
                    /\ Condition \notin ReasonsOf.prometheusCert
                    /\ pass.desired.rendered => ~pass.desired.prometheusCert
                    /\ (AllClear /\ ApplyOK) =>
                          /\ AppliedAll /\ Called("ClearDegraded") /\ ~status.degraded
                          /\ pass.err = "nil" \/ cluster.statusUpdate # "ok"
                          /\ (cluster.available = "yes" /\ cluster.statusUpdate = "ok") =>
                                managerState = "Ready"

\* C25 happens: with the Prometheus certificate absent a pass applied the
\* components and persisted Ready.
C25_Witness ==
    /\ pass.returned /\ cluster.prometheusCert = "absent" /\ AllClear
    /\ Called("ValidateCertPair(PrometheusTLSSecretName)")
    /\ AppliedAll /\ ~status.degraded /\ managerState = "Ready"
    /\ ~applied.prometheusCert

\* With the packet capture certificate absent a pass stopped in Degraded.
C25_CaptureAbsent ==
    /\ pass.returned /\ FirstBadIs("packetCapture") /\ cluster.packetCapture = "absent"
    /\ StoppedDegraded /\ pass.err = "nil"

-----------------------------------------------------------------------------
(* C26: returned errors and the Degraded condition.                        *)

\* C26 as the specification states it: when a pass returns an error, the
\* status manager holds Degraded at that moment and the pass has not
\* cleared it.
C26_ErrorLeavesDegraded ==
    (pass.returned /\ pass.err # "nil") =>
        /\ status.degraded
        /\ Called("SetDegraded") /\ ~Called("ClearDegraded")

\* C26 failing input: every check passed, every component was applied, the
\* pass cleared Degraded, the status manager reported available and the
\* write of the status subresource failed: the pass returned that error
\* with Degraded cleared and the persisted state unchanged.
C26_Witness ==
    /\ pass.returned /\ pass.err # "nil"
    /\ AllClear /\ AppliedAll /\ cluster.statusUpdate = "error"
    /\ Called("ClearDegraded") /\ LastCall = "Status().Update"
    /\ ~Called("SetDegraded") /\ ~status.degraded
    /\ managerState # "Ready"

\* Every other returned error leaves Degraded set: a pass that returns an
\* error without having failed the status write called SetDegraded last.
C26_OtherErrorsDegrade ==
    (pass.returned /\ pass.err # "nil" /\ ~Called("Status().Update")) =>
        /\ status.degraded /\ LastCall = "SetDegraded"
        /\ ~Called("ClearDegraded")

-----------------------------------------------------------------------------
(* C27: one terminal status decision per pass.                             *)

\* The calls of the pass that has just returned which decide the condition.
TerminalCalls == {"OnCRNotFound", "SetDegraded", "ClearDegraded"}
Decisions == SelectSeq(pass.calls, LAMBDA c : c \in TerminalCalls)

\* C27: a pass that has returned called exactly one of OnCRNotFound,
\* SetDegraded and ClearDegraded, and called it once; when that call is
\* SetDegraded or OnCRNotFound it is the last call of the pass; after
\* ClearDegraded the pass only asks for availability and writes the status;
\* and the condition the status manager holds is the one that call decided.
C27_OneTerminalDecision ==
    pass.returned =>
        /\ Len(Decisions) = 1
        /\ ~(Called("SetDegraded") /\ Called("ClearDegraded"))
        /\ Decisions[1] \in {"SetDegraded", "OnCRNotFound"} => LastCall = Decisions[1]
        /\ Decisions[1] = "ClearDegraded" =>
              \E n \in DOMAIN pass.calls :
                  /\ pass.calls[n] = "ClearDegraded"
                  /\ \A m \in (n + 1)..Len(pass.calls) :
                        pass.calls[m] \in {"IsAvailable", "Status().Update"}
        /\ Decisions[1] = "SetDegraded" => status.degraded
        /\ Decisions[1] = "ClearDegraded" => (status.crFound /\ ~status.degraded)
        /\ Decisions[1] = "OnCRNotFound" => Condition = "CRNotFound"

\* C27 happens: a pass read the Manager and several dependencies, met a
\* check that does not pass late in the pass, and made SetDegraded its one
\* decision and its last call.
C27_Witness ==
    /\ pass.returned /\ FirstBadIs("packetCapture")
    /\ Decisions = <<"SetDegraded">> /\ LastCall = "SetDegraded"
    /\ Called("OnCRFound") /\ Len(pass.calls) > 10

-----------------------------------------------------------------------------------------------------------------------------------------------------
(* C22: convergence under the scheduler.                                   *)

\* The Manager exists with a supported auth mode, every dependency is
\* present, valid and ready, the ready flag is set, the store accepts every
\* component, the status manager reports available and the status write
\* succeeds.
AllGood ==
    /\ AllClear /\ ApplyOK
    /\ cluster.available = "yes" /\ cluster.statusUpdate = "ok"

\* C22 as the specification states it: under the scheduler, if from some
\* moment on everything is good and stays good, then the persisted state of
\* the Manager eventually becomes Ready and Degraded is eventually cleared,
\* for good.
C22_Convergence ==
    <>[]AllGood => <>[](managerState = "Ready" /\ status.crFound /\ ~status.degraded)

\* C22 failing input: everything is good, the last pass cleared Degraded
\* while the status manager did not yet report available, so it wrote no
\* status and returned no error and no delay; availability came afterwards
\* and the queue is empty: no pass will run and the persisted state is not
\* Ready.
C22_Witness ==
    /\ AllGood /\ pass.returned /\ ~Enqueued
    /\ Called("ClearDegraded") /\ ~Called("Status().Update")
    /\ ~status.degraded /\ managerState # "Ready"

\* What the code does guarantee: under the scheduler, if from some moment
\* on everything is good, Degraded is eventually cleared for good and the
\* components are applied.
C22_DegradedEventuallyCleared ==
    <>[]AllGood => <>[](status.crFound /\ ~status.degraded /\ applied.rendered)

\* And the persisted state eventually becomes Ready unless the run ends in
\* the state above: the last pass ran before the status manager came to
\* report available.
C22_ReadyUnlessAvailableLate ==
    <>[]AllGood => \/ <>[](managerState = "Ready" /\ ~status.degraded)
                   \/ <>[]C22_Witness

-----------------------------------------------------------------------------
(* The controller with concurrent workers.                                 *)
(* The scheduler of the specification may run passes for distinct keys     *)
(* concurrently.  Every pass, whatever its key, reads the one Manager and  *)
(* calls the one status manager r.status of the reconciler.  A pass is two *)
(* steps here: ReconcileReads runs it up to its terminal status call,      *)
(* ReconcileReturns makes that call, writes the status and returns.        *)

\* The terminal status call of a pass with locals p.
TerminalOf(p) == CHOOSE c \in TerminalCalls : c \in Range(p.calls)

\* What a worker holds between the two steps of a pass with locals p: its
\* terminal call, whether it began while no other pass was running, and
\* whether no other pass has begun since.
Running(p) ==
    [ busy |-> TRUE, alone |-> \A j \in Keys : ~inflight[j].busy, latest |-> TRUE,
      decision |-> TerminalOf(p),
      reason |-> p.status.reason,
      written |-> "Status().Update" \in Range(p.calls) /\ p.err = "nil" ]

\* The condition of r.status after the terminal call d of a pass.
Decide(d) ==
    CASE d.decision = "OnCRNotFound" -> OnCRNotFound(NewPass).status
      [] d.decision = "SetDegraded"  -> SetDegraded(NewPass, d.reason).status
      [] OTHER                       -> ClearDegraded(NewPass).status

\* Fault: a pass that is not the one begun last leaves r.status alone.
ReconcileReturnsUnlessStale(k) ==
    /\ inflight[k].busy
    /\ status' = IF inflight[k].latest THEN Decide(inflight[k]) ELSE status
    /\ managerState' = IF inflight[k].written THEN TigeraStatusReady ELSE managerState
    /\ inflight' = [inflight EXCEPT ![k] = Idle]
    /\ UNCHANGED <<cluster, tlsSerial, applied, licenseAPIReady, pass, prevPass>>

\* A worker takes the request for key k and runs Reconcile up to its
\* terminal status call: the reads, r.status.OnCRFound() and the applies.
ReconcileReads(k) ==
    /\ ~inflight[k].busy
    /\ LET p == ReconcilePass
       IN  /\ cluster' = [cluster EXCEPT !.tls = p.secret]
           /\ tlsSerial' = p.serial
           /\ applied' = p.applied
           /\ status' = IF "OnCRFound" \in Range(p.calls)
                        THEN [status EXCEPT !.crFound = TRUE] ELSE status
           /\ inflight' = [j \in Keys |-> IF j = k THEN Running(p)
                                          ELSE [inflight[j] EXCEPT !.latest = FALSE]]
           /\ pass' = Returned(p)
           /\ prevPass' = pass
           /\ UNCHANGED <<licenseAPIReady, managerState>>

\* The pass for key k makes its terminal call on r.status, writes the status
\* of the Manager when it decided to, and returns.
ReconcileReturns(k) ==
    /\ inflight[k].busy
    /\ status' = Decide(inflight[k])
    /\ managerState' = IF inflight[k].written THEN TigeraStatusReady ELSE managerState
    /\ inflight' = [inflight EXCEPT ![k] = Idle]
    /\ UNCHANGED <<cluster, tlsSerial, applied, licenseAPIReady, pass, prevPass>>

InitConcurrent ==
    /\ cluster \in Snapshots(MaxMissingConcurrent)
    /\ tlsSerial = IF cluster.tls = "absent" THEN 0 ELSE 1
    /\ applied = NoDesired
    /\ licenseAPIReady = FALSE
    /\ status = NoStatus
    /\ managerState = ""
    /\ pass = NoPass
    /\ prevPass = NoPass
    /\ inflight = [k \in Keys |-> Idle]

NextConcurrent ==
    \/ \E k \in Keys : ReconcileReads(k)
    \/ \E k \in Keys : ReconcileReturns(k)
    \/ WaitToAddLicenseKeyWatch
    \/ \E d \in Inputs : Provision(d)

SpecConcurrent == InitConcurrent /\ [][NextConcurrent]_vars

-----------------------------------------------------------------------------
(* C21: concurrent passes and the condition of the status manager.         *)

\* No pass is running.
AllIdle == \A k \in Keys : ~inflight[k].busy

\* The condition a pass for key k is about to record.
Deciding(k) ==
    IF inflight[k].decision = "OnCRNotFound" \/ ~status.crFound THEN "CRNotFound"
    ELSE IF inflight[k].decision = "SetDegraded" THEN inflight[k].reason
    ELSE "Available"

\* C21 as the specification states it: when every pass has returned and
\* some pass ran over the cluster as it now is, the condition the status
\* manager holds is the outcome of a pass over that cluster: no pass has
\* overwritten the condition recorded by another.
C21_StatusMatchesFinalCluster ==
    (AllIdle /\ pass.returned) => status = ReconcilePass.status

\* C21 as the code behaves: the passes share r.status, and the last terminal
\* call wins.  When a pass returns, the status manager holds the condition
\* that pass decided, whatever another pass recorded before; it is the
\* outcome of a pass over the cluster as it now is when the returning pass
\* overlapped with no other pass and the cluster has not changed since it
\* began.
C21_LastTerminalCallWins ==
    [][\A k \in Keys :
          (inflight[k].busy /\ ~inflight'[k].busy) =>
              /\ Condition' = Deciding(k)
              /\ (inflight[k].alone /\ inflight[k].latest /\ pass.returned) =>
                    status' = ReconcilePass'.status]_vars

\* C21 happens: two passes overlapped and both have returned; the pass
\* begun last ran over the cluster as it now is and cleared Degraded, and
\* the older pass, returning after it, set Degraded again.
C21_Witness ==
    /\ AllIdle /\ pass.returned /\ prevPass.returned
    /\ Called("ClearDegraded") /\ AllClear
    /\ status.degraded /\ status # ReconcilePass.status

=============================================================================
